---- MODULE Spec2Model ----
(***************************************************************************)
(* A model of the WhatsApp gateway: the per-session connection lifecycle   *)
(* (service/whatsapp.js, here src/unnamed/part_002), the per-session       *)
(* outbound queue and its interval loop (helpers/queueHandler.js, here     *)
(* src/unnamed/part_003), the duplicate tracker (the tracker code at the   *)
(* end of src/helpers/groupHandler.js) and the bulk campaign loop          *)
(* (src/helpers/bulkHandler.js).                                           *)
(*                                                                         *)
(* Node runs every handler to its next await without interleaving, so an   *)
(* action is one synchronous stretch of a handler: from its entry, or from *)
(* the resumption of an await, to the next await or its return.            *)
(***************************************************************************)
EXTENDS Integers, Sequences, FiniteSets, Bags, TLC

VARIABLES
  \* ---- connection lifecycle (part_002) ----
  connections,           \* connections[sessionId]: the entry {socket, state}, or NoConn
  reconnectionAttempts,  \* the reconnectionAttempts Map; 0 stands for "no key"
  sessionDir,            \* whether sessions/<sessionId> exists on disk
  sockets,               \* the transport handles: owning session and phase
  pendingInit,           \* initializeConnection calls suspended at useMultiFileAuthState
  reconnectTimers,       \* bag of pending setTimeout reconnects, each {n, delay}
  disconnecting,         \* socket a suspended disconnectSession is logging out, or 0
  closesSince,           \* history: recoverable disconnects since creation / last open
  lastClose,             \* history: the disconnect handled by the last step
  trans,                 \* history: the state assignments made by the last step
  ended,                 \* history: how the session was last removed, "no" once a
                         \* connect request for it has been made since
  \* ---- duplicate tracker (groupHandler.js 361-445) ----
  recentMessages,        \* the recentMessages Map: message key -> timestamp
  now,                   \* Date.now(), in ms since the start
  clockSteps,            \* how often the clock has advanced
  lastWrite,             \* history: per input tuple, when it was last recorded (-1: never)
  lastCheck,             \* history: the isDuplicateMessage call made by the last step
  \* ---- bulk campaign (bulkHandler.js) ----
  campaign,              \* the campaign object held by the background loop
  campaignFile,          \* campaigns/<id>.json as last written
  bulk,                  \* the loop: where it is suspended, index i, callback given,
                         \* and the handle it was started with (0: not a modelled one)
  settled,               \* history: the file as it was when its status left processing
  attempts,              \* history: how often the send for each recipient was started
  lastCancel,            \* history: the cancelCampaign call of the last step
  \* ---- outbound queue (part_003) ----
  queueFile,             \* queue/<queueId>.json as last written
  processors,            \* processors[queueId]: the interval timer held, or NoTimer
  queueStatus,           \* queueStatus[queueId]: unset, or {processing}
  intervals,             \* the interval timers set and not yet cleared
  inFlight,              \* bag of loop ticks suspended in a send: {queueData, message}
  enqueued,              \* how many items have been enqueued: the last item's number
  dispatched,            \* history: the items handed to a send so far
  dispatchesLeft,        \* history: per item still in the file or held by a pending
                         \* tick, the retry count it was enqueued with plus one,
                         \* less the times it was handed to a send; 0 once it is gone
  lastDispatch,          \* history: the dispatch made by the last step
  lastCall,              \* history: the queue call or send return of the last step,
                         \* with what it found and what it returned
  cleared,               \* history: clearQueue has returned and no enqueue since
  \* ---- send paths (messageHandler.js, mediaHandler.js, groupHandler.js) ----
  sendKind,              \* the kind of message the run's send-path calls are for
  sending,               \* the send-path call suspended in socket.sendMessage, if any
  transportSends,        \* how often socket.sendMessage has been invoked
  lastAdmitted,          \* history: when a call without skipDuplicateCheck was last
                         \* let through (-1: never)
  lastSend,              \* history: the send-path step of the last step, what it
                         \* found and how the call returned
  \* ---- personalized content (bulkHandler.js 389-422) ----
  template,              \* messageTemplate.content, a string: a sequence of characters
  variables,             \* recipient.variables as Object.entries lists it
  rendered               \* what personalizeContent returned, once it has been called

connVars == <<connections, reconnectionAttempts, sessionDir, sockets, pendingInit,
              reconnectTimers, disconnecting, closesSince, lastClose, trans, ended>>

dedupVars == <<recentMessages, now, clockSteps, lastWrite, lastCheck>>

bulkVars == <<campaign, campaignFile, bulk, settled, attempts, lastCancel>>

queueVars == <<queueFile, processors, queueStatus, intervals, inFlight, enqueued,
               dispatched, dispatchesLeft, lastDispatch, lastCall, cleared>>

sendVars == <<sendKind, sending, transportSends, lastAdmitted, lastSend>>

persVars == <<template, variables, rendered>>

vars == <<connVars, dedupVars, bulkVars, queueVars, sendVars, persVars>>

\* what the actions of one component leave alone
nonConnVars == <<dedupVars, bulkVars, queueVars, sendVars, persVars>>
nonDedupVars == <<connVars, bulkVars, queueVars, sendVars, persVars>>
nonBulkVars == <<connVars, dedupVars, queueVars, sendVars, persVars>>
nonQueueVars == <<connVars, dedupVars, bulkVars, sendVars, persVars>>
nonSendVars == <<connVars, bulkVars, persVars>>
nonPersVars == <<connVars, dedupVars, bulkVars, queueVars, sendVars>>

----------------------------------------------------------------------------
(* Bounds of the model *)

MaxSockets == 3        \* transport handles alive or still referenced at once
MaxPending == 2        \* initializeConnection calls suspended at once, per session
MaxClockSteps == 3     \* advances of the clock in one run
MaxRecipients == 2     \* recipients of a campaign
MaxItems == 3          \* items enqueued in one run
MaxInFlight == 2       \* loop ticks suspended in a send at once, per queue
MaxTimers == 2         \* interval timers alive at once, per queue
MaxRetry == 1          \* options.retry of an enqueued item
MaxSends == 2          \* invocations of socket.sendMessage by send-path calls
MaxPieces == 3         \* pieces a template is put together from

Sessions == {"s1"}

----------------------------------------------------------------------------
(* Connection lifecycle: src/unnamed/part_002 *)

MAX_RECONNECTION_ATTEMPTS == 5

\* the history counter stops two above the limit
MaxCount == MAX_RECONNECTION_ATTEMPTS + 2

NoClose == [n |-> 0, outcome |-> "none", reason |-> "none", sid |-> ""]

FreeSocket == [sid |-> "", phase |-> "free"]

NoConn == [socket |-> 0, state |-> "absent"]

\* lastDisconnect.error as the handler classifies it: a Boom or not, and
\* whether its status code is DisconnectReason.loggedOut
Reasons == { [boom |-> TRUE,  loggedOut |-> FALSE],
             [boom |-> TRUE,  loggedOut |-> TRUE],
             [boom |-> FALSE, loggedOut |-> FALSE] }

ShouldReconnect(reason) == reason.boom /\ ~reason.loggedOut

\* history: what the reason of a disconnect is
ReasonName(reason) ==
  IF reason.boom /\ reason.loggedOut THEN "loggedOut"
  ELSE IF reason.boom THEN "boom" ELSE "other"

RECURSIVE Pow2(_)
Pow2(n) == IF n <= 0 THEN 1 ELSE 2 * Pow2(n - 1)

Min(a, b) == IF a < b THEN a ELSE b

BackoffAlt(n) == Min(1000 * Pow2(n), 30000)
\* Math.min(1000 * Math.pow(2, attempts - 1), 30000)
Backoff(n) == Min(1000 * Pow2(n - 1), 30000)

getConnectionAlt(s) ==
  IF connections[s] = NoConn \/ connections[s].state # "open" THEN NoConn
  ELSE [socket |-> connections[s].socket, state |-> connections[s].state]

\* getConnection(sessionId): null (NoConn) when there is no entry, else the
\* stored handle with the recorded state as status
getConnection(s) ==
  IF connections[s] = NoConn THEN NoConn
  ELSE [socket |-> connections[s].socket, state |-> connections[s].state]

\* listConnections(): one {id, status} per entry
listConnections ==
  { [id |-> s, status |-> connections[s].state] : s \in {x \in Sessions : connections[x] # NoConn} }

Change(from, to) == IF from = to THEN {} ELSE {<<from, to>>}

\* A handle that is closed and that nothing refers to any more is garbage:
\* its slot is free for the next makeWASocket
Collect(phases, conns, disc) ==
  [k \in 1..MaxSockets |->
     IF /\ phases[k].phase = "closed"
        /\ \A s \in Sessions : conns[s].socket # k /\ disc[s] # k
        /\ bulk.socket # k
     THEN FreeSocket ELSE phases[k]]

FreeSlots == {k \in 1..MaxSockets : sockets[k] = FreeSocket}

\* the connection attempts of s under way: handles that can still emit
\* events, suspended initializeConnection calls and scheduled reconnects
Pending(s) ==
  Cardinality({k \in 1..MaxSockets :
                 sockets[k].sid = s /\ sockets[k].phase \in {"connecting", "open", "ending"}})
  + pendingInit[s] + BagCardinality(reconnectTimers[s])

\* initializeConnection up to its first await: the early return for an open
\* entry, the mkdir of the session directory, then useMultiFileAuthState
InitBegin(s) ==
  IF connections[s] # NoConn /\ connections[s].state = "open"
  THEN /\ UNCHANGED <<sessionDir, pendingInit>>
  ELSE /\ pendingInit[s] < MaxPending
       /\ sessionDir' = [sessionDir EXCEPT ![s] = TRUE]
       /\ pendingInit' = [pendingInit EXCEPT ![s] = @ + 1]

\* SessionManager.createSession: an existing entry is returned as it is,
\* otherwise initializeConnection is called
createSession(s) ==
  /\ getConnection(s) = NoConn
  /\ Pending(s) < MaxSockets
  /\ InitBegin(s)
  /\ ended' = [ended EXCEPT ![s] = "no"]
  /\ trans' = {}
  /\ lastClose' = NoClose
  /\ UNCHANGED <<connections, reconnectionAttempts, sockets, reconnectTimers,
                 disconnecting, closesSince>>
  /\ UNCHANGED nonConnVars

\* the scheduled reconnect: setTimeout(() => initializeConnection(sessionId), delay)
ReconnectFire(s) ==
  \E t \in BagToSet(reconnectTimers[s]) :
    /\ reconnectTimers' = [reconnectTimers EXCEPT ![s] = @ (-) SetToBag({t})]
    /\ InitBegin(s)
    /\ trans' = {}
    /\ lastClose' = NoClose
    /\ UNCHANGED <<connections, reconnectionAttempts, sockets, disconnecting,
                   closesSince, ended>>
    /\ UNCHANGED nonConnVars

\* initializeConnection after useMultiFileAuthState: makeWASocket, the
\* handlers are registered, the entry is stored in state 'connecting'
InitFinish(s) ==
  /\ pendingInit[s] > 0
  /\ FreeSlots # {}
  /\ LET k == CHOOSE x \in FreeSlots : \A y \in FreeSlots : x <= y
         conns == [connections EXCEPT ![s] = [socket |-> k, state |-> "connecting"]]
     IN /\ connections' = conns
        /\ sockets' = Collect([sockets EXCEPT ![k] = [sid |-> s, phase |-> "connecting"]],
                              conns, disconnecting)
  /\ pendingInit' = [pendingInit EXCEPT ![s] = @ - 1]
  /\ closesSince' = [closesSince EXCEPT
                       ![s] = IF connections[s] = NoConn THEN 0 ELSE @]
  /\ trans' = Change(connections[s].state, "connecting")
  /\ lastClose' = NoClose
  /\ UNCHANGED <<reconnectionAttempts, sessionDir, reconnectTimers, disconnecting, ended>>
  /\ UNCHANGED nonConnVars

SocketOpenAlt(k) ==
  LET s == sockets[k].sid IN
  /\ sockets[k].phase = "connecting"
  /\ sockets' = [sockets EXCEPT ![k].phase = "open"]
  /\ reconnectionAttempts' = [reconnectionAttempts EXCEPT ![s] = 0]
  /\ connections' = [connections EXCEPT ![s] = [socket |-> k, state |-> "open"]]
  /\ closesSince' = [closesSince EXCEPT ![s] = 0]
  /\ trans' = Change(connections[s].state, "open")
  /\ lastClose' = NoClose
  /\ UNCHANGED <<sessionDir, pendingInit, reconnectTimers, disconnecting, ended>>
  /\ UNCHANGED nonConnVars

\* connection.update with connection === 'open', emitted by handle k
SocketOpen(k) ==
  LET s == sockets[k].sid IN
  /\ sockets[k].phase = "connecting"
  /\ sockets' = [sockets EXCEPT ![k].phase = "open"]
  /\ reconnectionAttempts' = [reconnectionAttempts EXCEPT ![s] = 0]
  /\ connections' = [connections EXCEPT
                       ![s] = IF @ # NoConn THEN [@ EXCEPT !.state = "open"] ELSE @]
  /\ closesSince' = [closesSince EXCEPT ![s] = 0]
  /\ trans' = IF connections[s] # NoConn
              THEN Change(connections[s].state, "open") ELSE {}
  /\ lastClose' = NoClose
  /\ UNCHANGED <<sessionDir, pendingInit, reconnectTimers, disconnecting, ended>>
  /\ UNCHANGED nonConnVars

\* connection.update with connection === 'close', emitted by handle k
SocketClose(k, reason) ==
  LET s == sockets[k].sid
      n == reconnectionAttempts[s] + 1
      had == connections[s] # NoConn
      toClosed == IF had THEN Change(connections[s].state, "closed") ELSE {}
      toAbsent == IF had THEN {<<"closed", "absent">>} ELSE {}
      dead == [sockets EXCEPT ![k].phase = "closed"]
      kept == [connections EXCEPT
                 ![s] = IF had THEN [@ EXCEPT !.state = "closed"] ELSE @]
      gone == [connections EXCEPT ![s] = NoConn]
      count == Min(closesSince[s] + 1, MaxCount)
  IN
  /\ sockets[k].phase \in {"connecting", "open", "ending"}
  /\ IF ShouldReconnect(reason)
     THEN /\ closesSince' = [closesSince EXCEPT ![s] = count]
          /\ IF n <= MAX_RECONNECTION_ATTEMPTS
             THEN /\ reconnectionAttempts' = [reconnectionAttempts EXCEPT ![s] = n]
                  /\ reconnectTimers' =
                       [reconnectTimers EXCEPT
                          ![s] = @ (+) SetToBag({[n |-> n, delay |-> Backoff(n)]})]
                  /\ connections' = kept
                  /\ sockets' = Collect(dead, kept, disconnecting)
                  /\ lastClose' = [n |-> count, outcome |-> "reconnect",
                                   reason |-> ReasonName(reason), sid |-> s]
                  /\ trans' = toClosed
                  /\ UNCHANGED <<sessionDir, ended>>
             ELSE /\ reconnectionAttempts' = [reconnectionAttempts EXCEPT ![s] = 0]
                  /\ sessionDir' = [sessionDir EXCEPT ![s] = FALSE]
                  /\ connections' = gone
                  /\ sockets' = Collect(dead, gone, disconnecting)
                  /\ lastClose' = [n |-> count, outcome |-> "teardown",
                                   reason |-> ReasonName(reason), sid |-> s]
                  /\ trans' = toClosed \cup toAbsent
                  /\ ended' = [ended EXCEPT ![s] = "exhausted"]
                  /\ UNCHANGED reconnectTimers
     ELSE /\ sessionDir' = [sessionDir EXCEPT ![s] = FALSE]
          /\ connections' = gone
          /\ sockets' = Collect(dead, gone, disconnecting)
          /\ reconnectionAttempts' = [reconnectionAttempts EXCEPT ![s] = 0]
          /\ trans' = toClosed \cup toAbsent
          /\ lastClose' = [n |-> 0, outcome |-> "none",
                           reason |-> ReasonName(reason), sid |-> s]
          /\ ended' = [ended EXCEPT ![s] = "terminal"]
          /\ UNCHANGED <<reconnectTimers, closesSince>>
  /\ UNCHANGED <<pendingInit, disconnecting>>
  /\ UNCHANGED nonConnVars

\* disconnectSession up to its first await: without an entry only the
\* directory is removed; with one, socket.logout() is awaited
DisconnectBegin(s) ==
  /\ disconnecting[s] = 0
  /\ IF connections[s] = NoConn
     THEN /\ sessionDir[s]
          /\ sessionDir' = [sessionDir EXCEPT ![s] = FALSE]
          /\ ended' = [ended EXCEPT ![s] = "disconnected"]
          /\ UNCHANGED <<sockets, disconnecting>>
     ELSE LET k == connections[s].socket IN
          /\ disconnecting' = [disconnecting EXCEPT ![s] = k]
          /\ sockets' = [sockets EXCEPT
                           ![k].phase = IF @ \in {"connecting", "open"}
                                        THEN "ending" ELSE @]
          /\ UNCHANGED <<sessionDir, ended>>
  /\ trans' = {}
  /\ lastClose' = NoClose
  /\ UNCHANGED <<connections, reconnectionAttempts, pendingInit, reconnectTimers,
                 closesSince>>
  /\ UNCHANGED nonConnVars

\* disconnectSession after logout() and end(): the directory is removed and
\* the entry deleted, whatever they are by now
DisconnectFinish(s) ==
  LET k == disconnecting[s]
      gone == [connections EXCEPT ![s] = NoConn]
      disc == [disconnecting EXCEPT ![s] = 0]
  IN
  /\ k # 0
  /\ disconnecting' = disc
  /\ sockets' = Collect([sockets EXCEPT
                           ![k].phase = IF @ = "ending" THEN "closed" ELSE @],
                        gone, disc)
  /\ sessionDir' = [sessionDir EXCEPT ![s] = FALSE]
  /\ connections' = gone
  /\ trans' = Change(connections[s].state, "absent")
  /\ ended' = [ended EXCEPT ![s] = "disconnected"]
  /\ lastClose' = NoClose
  /\ UNCHANGED <<reconnectionAttempts, pendingInit, reconnectTimers, closesSince>>
  /\ UNCHANGED nonConnVars

\* new SessionManager(): loadSessions starts initializeConnection for every
\* directory found under sessions/
ConnInit ==
  /\ connections = [s \in Sessions |-> NoConn]
  /\ reconnectionAttempts = [s \in Sessions |-> 0]
  /\ sessionDir \in [Sessions -> BOOLEAN]
  /\ pendingInit = [s \in Sessions |-> IF sessionDir[s] THEN 1 ELSE 0]
  /\ sockets = [k \in 1..MaxSockets |-> FreeSocket]
  /\ reconnectTimers = [s \in Sessions |-> EmptyBag]
  /\ disconnecting = [s \in Sessions |-> 0]
  /\ closesSince = [s \in Sessions |-> 0]
  /\ lastClose = NoClose
  /\ trans = {}
  /\ ended = [s \in Sessions |-> "no"]

ConnNext ==
  \/ \E s \in Sessions : createSession(s)
  \/ \E s \in Sessions : ReconnectFire(s)
  \/ \E s \in Sessions : InitFinish(s)
  \/ \E k \in 1..MaxSockets : SocketOpen(k)
  \/ \E k \in 1..MaxSockets, reason \in Reasons : SocketClose(k, reason)
  \/ \E s \in Sessions : DisconnectBegin(s)
  \/ \E s \in Sessions : DisconnectFinish(s)

\* no session directory at start, and nothing happens to the connections
ConnIdle ==
  /\ ConnInit
  /\ sessionDir = [s \in Sessions |-> FALSE]

----------------------------------------------------------------------------
(* Duplicate tracker: src/helpers/groupHandler.js 361-445 *)

\* Maximum age for tracked messages: 5 * 60 * 1000 ms
MESSAGE_TRACKING_TTL == 300000

\* Strings are sequences of one-character strings.
Rep(c, n) == [i \in 1..n |-> c]

RECURSIVE Digits(_)
\* the decimal digits of n, as `${n}` prints them
Digits(n) ==
  IF n < 10 THEN <<SubSeq(<<"0","1","2","3","4","5","6","7","8","9">>, n + 1, n + 1)[1]>>
  ELSE Digits(n \div 10) \o Digits(n % 10)

\* message contents: a string, or an object given by its JSON.stringify text
StrContent(text) == [isString |-> TRUE, text |-> text]
ObjContent(json) == [isString |-> FALSE, text |-> json]

\* contentIdentifier of generateMessageKey: strings longer than 100 chars are
\* cut to their first 50 chars plus "..." plus their length, objects to the
\* first 50 chars of their JSON text
ContentIdentifier(content) ==
  IF content.isString
  THEN IF Len(content.text) > 100
       THEN SubSeq(content.text, 1, 50) \o <<".", ".", ".">> \o Digits(Len(content.text))
       ELSE content.text
  ELSE SubSeq(content.text, 1, Min(50, Len(content.text)))

\* `${sessionId}:${recipient}:${type}:${contentIdentifier}`
generateMessageKey(sessionId, recipient, type, content) ==
  sessionId \o <<":">> \o recipient \o <<":">> \o type \o <<":">> \o ContentIdentifier(content)


Recipient1 == <<"6","2","8","@","s",".","w","h","a","t","s","a","p","p",".","n","e","t">>
TypeText == <<"t","e","x","t">>
Session1 == <<"s","1">>

\* the tuples the tracker is called with: a short text, two texts of 101
\* characters that differ only after the 50th, and a text of 100 characters
DedupInputs ==
  { [sessionId |-> Session1, recipient |-> Recipient1, type |-> TypeText,
     content |-> c] :
    c \in { StrContent(<<"h","i">>),
            StrContent(Rep("a", 50) \o Rep("b", 51)),
            StrContent(Rep("a", 50) \o Rep("c", 51)),
            StrContent(Rep("a", 50) \o Rep("b", 50)) } }

UserSuffix == <<"@","s",".","w","h","a","t","s","a","p","p",".","n","e","t">>
GroupSuffix == <<"@","g",".","u","s">>

EndsWith(str, suffix) ==
  /\ Len(str) >= Len(suffix)
  /\ SubSeq(str, Len(str) - Len(suffix) + 1, Len(str)) = suffix

\* if (!recipient.endsWith('@s.whatsapp.net')) recipient = `${recipient}@s.whatsapp.net`
UserJid(recipient) ==
  IF EndsWith(recipient, UserSuffix) THEN recipient ELSE recipient \o UserSuffix

\* if (!groupId.endsWith('@g.us')) groupId = `${groupId}@g.us`
GroupJid(groupId) ==
  IF EndsWith(groupId, GroupSuffix) THEN groupId ELSE groupId \o GroupSuffix

\* the recipient a send-path call of the kind is made with: a phone number,
\* or for sendGroupMessage a group id
CalledWith(kind) == IF kind = "group-message" THEN <<"g", "1">> ELSE <<"6", "2", "8">>

\* the recipient as the call of the kind stores it in a queue item, from which
\* the loop calls the same function again
Stored(kind, recipient) ==
  IF kind = "group-message" THEN GroupJid(recipient) ELSE UserJid(recipient)

\* the first argument of socket.sendMessage: the normalised recipient; for
\* sendGroupMessage the normalised group id as sendTextMessage normalises it
TransportJid(kind, recipient) ==
  IF kind = "group-message" THEN UserJid(GroupJid(recipient)) ELSE UserJid(recipient)

\* what the send paths hand to the tracker: sendTextMessage and
\* sendImageMessage their normalised recipient and their own type;
\* sendGroupMessage through sendTextMessage, which takes the group id for a
\* user's number
TextInput ==
  [sessionId |-> Session1, recipient |-> UserJid(<<"6","2","8">>), type |-> TypeText,
   content |-> StrContent(<<"h","i">>)]
ImageInput ==
  [sessionId |-> Session1, recipient |-> UserJid(<<"6","2","8">>),
   type |-> <<"i","m","a","g","e">>, content |-> StrContent(<<"h","i">>)]
GroupInput ==
  [sessionId |-> Session1, recipient |-> UserJid(GroupJid(<<"g","1">>)), type |-> TypeText,
   content |-> StrContent(<<"h","i">>)]

SendInputs == {TextInput, ImageInput, GroupInput}

\* the message key of every input tuple
KeyTable ==
  [t \in DedupInputs \cup SendInputs |->
     generateMessageKey(t.sessionId, t.recipient, t.type, t.content)]

KeyOf(t) == KeyTable[t]

NoCheck == [made |-> FALSE]

Tracked(map, key) == key \in DOMAIN map

SweepAlt(map) ==
  LET keep == {k \in DOMAIN map : ~(now - map[k] > 0)}
  IN [k \in keep |-> map[k]]
\* the cleanup loop: entries with now - timestamp > TTL are deleted
Sweep(map) ==
  LET keep == {k \in DOMAIN map : ~(now - map[k] > MESSAGE_TRACKING_TTL)}
  IN [k \in keep |-> map[k]]

Put(map, key, value) ==
  [k \in DOMAIN map \cup {key} |-> IF k = key THEN value ELSE map[k]]

IsFreshAlt(timestamp) == now - timestamp <= MESSAGE_TRACKING_TTL
\* now - timestamp < MESSAGE_TRACKING_TTL
IsFresh(timestamp) == now - timestamp < MESSAGE_TRACKING_TTL

\* the latest record, by any input with the same message key as t
LastWriteOfKey(t) ==
  LET ws == {lastWrite[u] : u \in {x \in DedupInputs : KeyOf(x) = KeyOf(t)}}
  IN CHOOSE w \in ws : \A v \in ws : v <= w

DuplicateCheckAlt(t, doSweep) ==
  LET messageKey == KeyOf(t)
      swept == IF doSweep THEN Sweep(recentMessages) ELSE recentMessages
      dup == Tracked(swept, messageKey) /\ IsFresh(swept[messageKey])
  IN [dup |-> dup, map |-> Put(swept, messageKey, now)]
\* what isDuplicateMessage answers for t and what it leaves in the map
DuplicateCheck(t, doSweep) ==
  LET messageKey == KeyOf(t)
      swept == IF doSweep THEN Sweep(recentMessages) ELSE recentMessages
      dup == Tracked(swept, messageKey) /\ IsFresh(swept[messageKey])
  IN [dup |-> dup, map |-> IF dup THEN swept ELSE Put(swept, messageKey, now)]

\* isDuplicateMessage(sessionId, recipient, type, content); doSweep is the
\* outcome of Math.random() < 0.1
isDuplicateMessage(t, doSweep) ==
  LET dup == DuplicateCheck(t, doSweep).dup
  IN
  /\ recentMessages' = DuplicateCheck(t, doSweep).map
  /\ lastWrite' = IF dup THEN lastWrite ELSE [lastWrite EXCEPT ![t] = now]
  /\ lastCheck' = [made |-> TRUE, input |-> t, result |-> dup, swept |-> doSweep,
                   prior |-> lastWrite[t], priorOfKey |-> LastWriteOfKey(t)]
  /\ UNCHANGED <<now, clockSteps>>
  /\ UNCHANGED nonDedupVars

\* recordMessage(sessionId, recipient, type, content)
recordMessage(t) ==
  /\ recentMessages' = Put(recentMessages, KeyOf(t), now)
  /\ lastWrite' = [lastWrite EXCEPT ![t] = now]
  /\ lastCheck' = NoCheck
  /\ UNCHANGED <<now, clockSteps>>
  /\ UNCHANGED nonDedupVars

\* time passes: by a millisecond, or by one millisecond less than the TTL
AdvanceClock(d) ==
  /\ clockSteps < MaxClockSteps
  /\ clockSteps' = clockSteps + 1
  /\ now' = now + d
  /\ lastCheck' = NoCheck
  /\ UNCHANGED <<recentMessages, lastWrite>>
  /\ UNCHANGED nonDedupVars

DedupInit ==
  /\ recentMessages = << >>
  /\ now = 0
  /\ clockSteps = 0
  /\ lastWrite = [t \in DedupInputs |-> -1]
  /\ lastCheck = NoCheck

DedupNext ==
  \/ \E t \in DedupInputs, doSweep \in BOOLEAN : isDuplicateMessage(t, doSweep)
  \/ \E t \in DedupInputs : recordMessage(t)
  \/ \E d \in {1, MESSAGE_TRACKING_TTL - 1} : AdvanceClock(d)

----------------------------------------------------------------------------
(* Bulk campaigns: src/helpers/bulkHandler.js *)

NoCampaign == [status |-> "none"]

NoCancel == [made |-> FALSE]

\* the campaign object built by sendBulkMessage for n recipients
NewCampaign(n) ==
  [ status |-> "processing", totalRecipients |-> n,
    processedCount |-> 0, successCount |-> 0, failedCount |-> 0,
    endTime |-> FALSE,
    recipients |-> [i \in 1..n |-> "pending"] ]

\* what a step's file writes and progress callbacks do: TRUE means it throws
Faults == [save1 : BOOLEAN, cb1 : BOOLEAN, save2 : BOOLEAN, cb2 : BOOLEAN,
           saveEnd : BOOLEAN, saveCatch : BOOLEAN]

\* saveCampaign: writeFileSync replaces the file, or throws and leaves it
saveCampaign(c, file, fails) == IF fails THEN file ELSE c

\* updateProgress up to its saveCampaign: the counters and the roster entry
Progress(c, i, status) ==
  [c EXCEPT !.processedCount = @ + 1,
            !.successCount = IF status = "success" THEN @ + 1 ELSE @,
            !.failedCount = IF status = "success" THEN @ ELSE @ + 1,
            !.recipients[i] = status]

End(c, status) == [c EXCEPT !.status = status, !.endTime = TRUE]

\* The loop from the return of the send for recipient i to its next await:
\* updateProgress (again with 'failed' from the catch block if the first call
\* threw inside the try), then either the delay, or the completion, or, for an
\* error that leaves processRecipients, the .catch handler marking it failed.
\* The result is the campaign object, the file and the loop's next position.
AfterSend(c, file, i, returned, hasCallback, f) ==
  LET st1    == IF returned THEN "success" ELSE "failed"
      c1     == Progress(c, i, st1)
      file1  == saveCampaign(c1, file, f.save1)
      threw1 == f.save1 \/ (hasCallback /\ f.cb1)
      retry  == returned /\ threw1
      c2     == IF retry THEN Progress(c1, i, "failed") ELSE c1
      file2  == IF retry THEN saveCampaign(c2, file1, f.save2) ELSE file1
      threw2 == IF retry THEN f.save2 \/ (hasCallback /\ f.cb2) ELSE threw1
      last   == i = c.totalRecipients
      c3     == IF ~threw2 /\ last THEN End(c2, "completed") ELSE c2
      file3  == IF ~threw2 /\ last THEN saveCampaign(c3, file2, f.saveEnd) ELSE file2
      escaped == threw2 \/ (last /\ f.saveEnd)
      c4     == IF escaped THEN End(c3, "failed") ELSE c3
      file4  == IF escaped THEN saveCampaign(c4, file3, f.saveCatch) ELSE file3
  IN [ campaign |-> c4, file |-> file4,
       at |-> IF escaped \/ last THEN "done" ELSE "delay" ]

\* history: the file is remembered when its status first leaves processing
Settle(file) ==
  IF settled = NoCampaign /\ file.status \in {"completed", "failed", "cancelled"}
  THEN file ELSE settled

\* sendBulkMessage / sendPersonalizedBulkMessage called with a handle: the
\* campaign object is built and saved, and processRecipients runs to the send
\* for the first recipient, on that handle
StartCampaign(socket, n, hasCallback) ==
  /\ bulk.at = "idle"
  /\ campaign' = NewCampaign(n)
  /\ campaignFile' = NewCampaign(n)
  /\ bulk' = [at |-> "send", i |-> 1, hasCallback |-> hasCallback, socket |-> socket]
  /\ attempts' = [attempts EXCEPT ![1] = @ + 1]
  /\ lastCancel' = NoCancel
  /\ UNCHANGED settled

\* a call of sendBulkMessage on its own, the handle not being followed
sendBulkMessage(n, hasCallback) ==
  /\ StartCampaign(0, n, hasCallback)
  /\ UNCHANGED nonBulkVars

\* POST /send of the bulk controller: the session must exist and be open;
\* sendBulkMessage is called with the session's handle and no callback
BulkRequest(s, n) ==
  /\ getConnection(s) # NoConn
  /\ getConnection(s).state = "open"
  /\ StartCampaign(getConnection(s).socket, n, FALSE)
  /\ UNCHANGED nonBulkVars

\* the send for recipient i returns (also when skipped or queued) or throws
SendSettles(returned, f) ==
  /\ bulk.at = "send"
  /\ LET r == AfterSend(campaign, campaignFile, bulk.i, returned, bulk.hasCallback, f)
     IN /\ campaign' = r.campaign
        /\ campaignFile' = r.file
        /\ bulk' = [bulk EXCEPT !.at = r.at]
        /\ settled' = Settle(r.file)
  /\ lastCancel' = NoCancel
  /\ UNCHANGED attempts
  /\ UNCHANGED nonBulkVars

DelayElapsedAlt ==
  /\ bulk.at = "delay"
  /\ bulk' = [bulk EXCEPT !.at = "send"]
  /\ attempts' = [attempts EXCEPT ![bulk.i] = @ + 1]
  /\ lastCancel' = NoCancel
  /\ UNCHANGED <<campaign, campaignFile, settled>>
  /\ UNCHANGED nonBulkVars
\* the delay between two recipients is over: the next send starts
DelayElapsed ==
  /\ bulk.at = "delay"
  /\ bulk' = [bulk EXCEPT !.at = "send", !.i = @ + 1]
  /\ attempts' = [attempts EXCEPT ![bulk.i + 1] = @ + 1]
  /\ lastCancel' = NoCancel
  /\ UNCHANGED <<campaign, campaignFile, settled>>
  /\ UNCHANGED nonBulkVars

\* getCampaign(campaignId): the parsed file, or null
getCampaign == campaignFile

\* cancelCampaign(campaignId): false without a file or for a status other
\* than processing; else the file is saved as cancelled with an end time and
\* true returned, unless the write throws
cancelCampaign(fails) ==
  LET found == getCampaign # NoCampaign /\ getCampaign.status = "processing"
  IN
  /\ campaignFile' = IF found
                     THEN saveCampaign(End(getCampaign, "cancelled"), campaignFile, fails)
                     ELSE campaignFile
  /\ settled' = Settle(campaignFile')
  /\ lastCancel' = [ made |-> TRUE, before |-> getCampaign,
                     returned |-> IF ~found THEN "false"
                                  ELSE IF fails THEN "threw" ELSE "true",
                     cancelledBefore |-> settled.status = "cancelled" ]
  /\ UNCHANGED <<campaign, bulk, attempts>>
  /\ UNCHANGED nonBulkVars

BulkInit ==
  /\ campaign = NoCampaign
  /\ campaignFile = NoCampaign
  /\ bulk = [at |-> "idle", i |-> 0, hasCallback |-> FALSE, socket |-> 0]
  /\ settled = NoCampaign
  /\ attempts = [i \in 1..MaxRecipients |-> 0]
  /\ lastCancel = NoCancel

BulkNext ==
  \/ \E n \in 1..MaxRecipients, cb \in BOOLEAN : sendBulkMessage(n, cb)
  \/ \E returned \in BOOLEAN, f \in Faults : SendSettles(returned, f)
  \/ DelayElapsed
  \/ \E fails \in BOOLEAN : cancelCampaign(fails)

\* no write of the campaign file and no progress callback throws
NoFaults == [save1 |-> FALSE, cb1 |-> FALSE, save2 |-> FALSE, cb2 |-> FALSE,
             saveEnd |-> FALSE, saveCatch |-> FALSE]

\* a campaign requested for a session whose connection opens, closes,
\* reconnects and ends while the campaign runs
BulkConnNext ==
  \/ \E s \in Sessions, n \in 1..MaxRecipients : BulkRequest(s, n)
  \/ \E returned \in BOOLEAN, f \in {NoFaults} : SendSettles(returned, f)
  \/ DelayElapsed
  \/ \E s \in Sessions : InitFinish(s)
  \/ \E s \in Sessions : ReconnectFire(s)
  \/ \E k \in 1..MaxSockets : SocketOpen(k)
  \/ \E k \in 1..MaxSockets, reason \in Reasons : SocketClose(k, reason)

----------------------------------------------------------------------------
(* Outbound queue: src/unnamed/part_003 *)

NoTimer == 0

NoStatus == [set |-> FALSE, processing |-> FALSE]

NoDispatch == [made |-> FALSE]

NoCall == [op |-> "none"]

\* initQueue: the content a queue file is created with
InitialQueue ==
  [ items |-> << >>, processing |-> FALSE, lastProcessed |-> FALSE,
    stats |-> [total |-> 0, success |-> 0, failed |-> 0] ]

\* a queue file that cannot be read, or whose content JSON.parse rejects
Corrupt == [corrupt |-> TRUE]

initQueueAlt(file) == file
\* initQueue(queueId), the file it leaves: a file that cannot be read or parsed
\* is written anew with the initial content
initQueue(file) == IF file = Corrupt THEN InitialQueue ELSE file

\* getQueue(queueId): what initQueue returns, the parsed file or the initial
\* content
getQueue(s) == IF queueFile[s] = Corrupt THEN InitialQueue ELSE queueFile[s]

\* the loop registry of queue s: processors[s], queueStatus[s] and its timers
Loop(s) ==
  [processors |-> processors[s], queueStatus |-> queueStatus[s], intervals |-> intervals[s]]

FreeTimers(l) == (1..MaxTimers) \ l.intervals

StartAlt(l) ==
  LET t == CHOOSE x \in FreeTimers(l) : \A y \in FreeTimers(l) : x <= y
  IN [ processors |-> t,
       queueStatus |-> [set |-> TRUE, processing |-> TRUE],
       intervals |-> l.intervals \cup {t} ]
\* startQueueProcessor on the registry l: nothing when the flag says a loop
\* runs, else the flag is set and a new interval timer is stored
Start(l) ==
  IF l.queueStatus.processing THEN l
  ELSE LET t == CHOOSE x \in FreeTimers(l) : \A y \in FreeTimers(l) : x <= y
       IN [ processors |-> t,
            queueStatus |-> [set |-> TRUE, processing |-> TRUE],
            intervals |-> l.intervals \cup {t} ]

StopAlt(l) ==
  IF l.processors = NoTimer THEN l
  ELSE [ processors |-> NoTimer,
         queueStatus |-> [set |-> TRUE, processing |-> FALSE],
         intervals |-> l.intervals ]
\* stopQueueProcessor on the registry l: nothing when no timer is stored, else
\* the stored timer is cleared and forgotten and the flag reset
Stop(l) ==
  IF l.processors = NoTimer THEN l
  ELSE [ processors |-> NoTimer,
         queueStatus |-> [set |-> TRUE, processing |-> FALSE],
         intervals |-> l.intervals \ {l.processors} ]

SetLoop(s, l) ==
  /\ processors' = [processors EXCEPT ![s] = l.processors]
  /\ queueStatus' = [queueStatus EXCEPT ![s] = l.queueStatus]
  /\ intervals' = [intervals EXCEPT ![s] = l.intervals]

\* history: the items that are in a queue file or held by a pending tick, as
\* the message it sends or in its copy of the file
Ids(items) == {items[i].id : i \in 1..Len(items)}

Held(file, flight) ==
  Ids(file.items)
  \cup UNION {Ids(tick.queueData.items) \cup {tick.message.id} : tick \in BagToSet(flight)}

\* history: the count of an item that is gone is dropped
Kept(left, file, flight) ==
  [i \in 1..MaxItems |-> IF i \in Held(file, flight) THEN left[i] ELSE 0]

\* addToQueue(queueId, message): the file is read, the message appended, total
\* counted and the file saved; the loop is started unless the flag is set;
\* the length of the saved list is returned
Enqueue(s, retry) ==
  /\ enqueued[s] < MaxItems
  /\ FreeTimers(Loop(s)) # {}
  /\ LET message == [id |-> enqueued[s] + 1, retry |-> retry]
         queueData == [getQueue(s) EXCEPT !.items = Append(@, message),
                                          !.stats.total = @ + 1]
     IN /\ queueFile' = [queueFile EXCEPT ![s] = queueData]
        /\ lastCall' = [ op |-> "addToQueue", message |-> message,
                         reinit |-> queueFile[s] = Corrupt,
                         itemsBefore |-> getQueue(s).items,
                         timersBefore |-> intervals[s],
                         queueLength |-> Len(queueData.items) ]
  /\ enqueued' = [enqueued EXCEPT ![s] = @ + 1]
  /\ SetLoop(s, IF ~queueStatus[s].set \/ ~queueStatus[s].processing
                THEN Start(Loop(s)) ELSE Loop(s))
  /\ lastDispatch' = NoDispatch
  /\ cleared' = [cleared EXCEPT ![s] = FALSE]
  /\ dispatchesLeft' = [dispatchesLeft EXCEPT ![s][enqueued[s] + 1] = retry + 1]
  /\ UNCHANGED <<inFlight, dispatched>>

addToQueueAlt(s, retry) ==
  /\ enqueued[s] < MaxItems
  /\ FreeTimers(Loop(s)) # {}
  /\ LET message == [id |-> enqueued[s] + 1, retry |-> retry]
         queueData == [getQueue(s) EXCEPT !.items = Append(@, message),
                                          !.stats.total = @ + 1]
     IN /\ queueFile' = [queueFile EXCEPT ![s] = queueData]
        /\ lastCall' = [ op |-> "addToQueue", message |-> message,
                         reinit |-> queueFile[s] = Corrupt,
                         itemsBefore |-> getQueue(s).items,
                         timersBefore |-> intervals[s],
                         queueLength |-> Len(queueData.items) ]
  /\ enqueued' = [enqueued EXCEPT ![s] = @ + 1]
  /\ SetLoop(s, Loop(s))
  /\ lastDispatch' = NoDispatch
  /\ cleared' = [cleared EXCEPT ![s] = FALSE]
  /\ dispatchesLeft' = [dispatchesLeft EXCEPT ![s][enqueued[s] + 1] = retry + 1]
  /\ UNCHANGED <<inFlight, dispatched>>
  /\ UNCHANGED nonQueueVars
\* a call of addToQueue on its own
addToQueue(s, retry) ==
  /\ Enqueue(s, retry)
  /\ UNCHANGED nonQueueVars

startQueueProcessor(s) ==
  /\ FreeTimers(Loop(s)) # {}
  /\ SetLoop(s, Start(Loop(s)))
  /\ lastDispatch' = NoDispatch
  /\ lastCall' = NoCall
  /\ UNCHANGED <<queueFile, inFlight, enqueued, dispatched, dispatchesLeft, cleared>>
  /\ UNCHANGED nonQueueVars

stopQueueProcessor(s) ==
  /\ SetLoop(s, Stop(Loop(s)))
  /\ lastDispatch' = NoDispatch
  /\ lastCall' = NoCall
  /\ UNCHANGED <<queueFile, inFlight, enqueued, dispatched, dispatchesLeft, cleared>>
  /\ UNCHANGED nonQueueVars

\* clearQueue(queueId): the loop is stopped, then the file is read and saved
\* with no items; the number of items read is returned
clearQueue(s) ==
  /\ SetLoop(s, Stop(Loop(s)))
  /\ queueFile' = [queueFile EXCEPT ![s] = [getQueue(s) EXCEPT !.items = << >>]]
  /\ lastDispatch' = NoDispatch
  /\ lastCall' = [ op |-> "clearQueue", reinit |-> queueFile[s] = Corrupt,
                   itemsBefore |-> getQueue(s).items,
                   removedCount |-> Len(getQueue(s).items) ]
  /\ cleared' = [cleared EXCEPT ![s] = TRUE]
  /\ dispatchesLeft' = [dispatchesLeft EXCEPT
                          ![s] = Kept(@, queueFile'[s], inFlight[s])]
  /\ UNCHANGED <<inFlight, enqueued, dispatched>>
  /\ UNCHANGED nonQueueVars

\* the readiness check of the interval callback: no connection, or one whose
\* status is not open
NotReady(s) ==
  LET connection == getConnection(s)
  IN connection = NoConn \/ connection.state # "open"

TickAlt(s, t) ==
  /\ t \in intervals[s]
  /\ LET queueData == getQueue(s)
     IN IF queueData.items = << >>
        THEN /\ SetLoop(s, Stop(Loop(s)))
             /\ lastDispatch' = NoDispatch
             /\ UNCHANGED <<inFlight, dispatched, dispatchesLeft>>
        ELSE /\ BagCardinality(inFlight[s]) < MaxInFlight
             /\ LET message == Head(queueData.items)
                    tick == [ queueData |-> [queueData EXCEPT !.items = Tail(@)],
                              message |-> message ]
                IN /\ inFlight' = [inFlight EXCEPT ![s] = @ (+) SetToBag({tick})]
                   /\ dispatched' = [dispatched EXCEPT ![s] = @ \cup {message.id}]
                   /\ dispatchesLeft' = [dispatchesLeft EXCEPT ![s][message.id] =
                                           IF @ < 0 THEN @ ELSE @ - 1]
                   /\ lastDispatch' = [made |-> TRUE, id |-> message.id,
                                       before |-> dispatched[s]]
             /\ UNCHANGED <<processors, queueStatus, intervals>>
  /\ lastCall' = IF getQueue(s).items = << >>
                 THEN [op |-> "tick", ready |-> TRUE,
                       reinit |-> queueFile[s] = Corrupt, itemsBefore |-> << >>]
                 ELSE NoCall
  /\ queueFile' = [queueFile EXCEPT ![s] = initQueue(@)]
  /\ UNCHANGED <<enqueued, cleared>>
  /\ UNCHANGED nonQueueVars
\* The interval callback of timer t, to its first suspension: the loop stops
\* when the session has no open connection, or when processNextInQueue,
\* reading the file through initQueue, finds no item; else processNextInQueue shifts the head off its copy of the file
\* and waits for the send
Tick(s, t) ==
  /\ t \in intervals[s]
  /\ LET queueData == getQueue(s)
     IN IF NotReady(s) \/ queueData.items = << >>
        THEN /\ SetLoop(s, Stop(Loop(s)))
             /\ lastDispatch' = NoDispatch
             /\ UNCHANGED <<inFlight, dispatched, dispatchesLeft>>
        ELSE /\ BagCardinality(inFlight[s]) < MaxInFlight
             /\ LET message == Head(queueData.items)
                    tick == [ queueData |-> [queueData EXCEPT !.items = Tail(@)],
                              message |-> message ]
                IN /\ inFlight' = [inFlight EXCEPT ![s] = @ (+) SetToBag({tick})]
                   /\ dispatched' = [dispatched EXCEPT ![s] = @ \cup {message.id}]
                   /\ dispatchesLeft' = [dispatchesLeft EXCEPT ![s][message.id] =
                                           IF @ < 0 THEN @ ELSE @ - 1]
                   /\ lastDispatch' = [made |-> TRUE, id |-> message.id,
                                       before |-> dispatched[s]]
             /\ UNCHANGED <<processors, queueStatus, intervals>>
  /\ lastCall' = IF NotReady(s) \/ getQueue(s).items = << >>
                 THEN [op |-> "tick", ready |-> ~NotReady(s),
                       reinit |-> ~NotReady(s) /\ queueFile[s] = Corrupt,
                       itemsBefore |-> getQueue(s).items]
                 ELSE NoCall
  /\ queueFile' = [queueFile EXCEPT ![s] = IF NotReady(s) THEN @ ELSE initQueue(@)]
  /\ UNCHANGED <<enqueued, cleared>>
  /\ UNCHANGED nonQueueVars

\* The send of a suspended tick returns or throws: processNextInQueue counts
\* it in its copy, re-appends a failed message that has retries left, and saves
\* its copy; the callback then stops the loop if nothing was processed and the
\* file holds no item
SendReturns(s, ok) ==
  \E tick \in BagToSet(inFlight[s]) :
    /\ LET message == tick.message
           queueData ==
             IF ok
             THEN [tick.queueData EXCEPT !.stats.success = @ + 1, !.lastProcessed = TRUE]
             ELSE [tick.queueData EXCEPT
                     !.stats.failed = @ + 1,
                     !.lastProcessed = TRUE,
                     !.items = IF message.retry > 0
                               THEN Append(@, [message EXCEPT !.retry = @ - 1])
                               ELSE @]
       IN /\ queueFile' = [queueFile EXCEPT ![s] = queueData]
          /\ SetLoop(s, IF ~ok /\ queueData.items = << >> THEN Stop(Loop(s)) ELSE Loop(s))
    /\ inFlight' = [inFlight EXCEPT ![s] = @ (-) SetToBag({tick})]
    /\ lastDispatch' = NoDispatch
    /\ lastCall' = [ op |-> "send", ok |-> ok, message |-> tick.message,
                     statsBefore |-> getQueue(s).stats,
                     copyItems |-> tick.queueData.items ]
    /\ dispatchesLeft' = [dispatchesLeft EXCEPT
                            ![s] = Kept(@, queueFile'[s], inFlight'[s])]
    /\ UNCHANGED <<enqueued, dispatched, cleared>>
    /\ UNCHANGED nonQueueVars

\* getQueueStatus(queueId)
getQueueStatus(s) ==
  [ itemsInQueue |-> Len(getQueue(s).items),
    processing |-> IF queueStatus[s].set THEN queueStatus[s].processing ELSE FALSE,
    lastProcessed |-> getQueue(s).lastProcessed,
    stats |-> getQueue(s).stats ]

\* a call of getQueueStatus: the file is read through initQueue and the
\* status put together from it
StatusCall(s) ==
  /\ queueFile' = [queueFile EXCEPT ![s] = initQueue(@)]
  /\ lastCall' = [ op |-> "getQueueStatus", reinit |-> queueFile[s] = Corrupt,
                   status |-> getQueueStatus(s) ]
  /\ lastDispatch' = NoDispatch
  /\ UNCHANGED <<processors, queueStatus, intervals, inFlight, enqueued, dispatched,
                 dispatchesLeft, cleared>>
  /\ UNCHANGED nonQueueVars

\* the queue file of s is damaged on disk: the next read or parse of it fails
CorruptFile(s) ==
  /\ queueFile[s] # Corrupt
  /\ queueFile' = [queueFile EXCEPT ![s] = Corrupt]
  /\ lastCall' = NoCall
  /\ lastDispatch' = NoDispatch
  /\ UNCHANGED <<processors, queueStatus, intervals, inFlight, enqueued, dispatched,
                 dispatchesLeft, cleared>>
  /\ UNCHANGED nonQueueVars

QueueInit ==
  /\ queueFile = [s \in Sessions |-> InitialQueue]
  /\ processors = [s \in Sessions |-> NoTimer]
  /\ queueStatus = [s \in Sessions |-> NoStatus]
  /\ intervals = [s \in Sessions |-> {}]
  /\ inFlight = [s \in Sessions |-> EmptyBag]
  /\ enqueued = [s \in Sessions |-> 0]
  /\ dispatched = [s \in Sessions |-> {}]
  /\ dispatchesLeft = [s \in Sessions |-> [i \in 1..MaxItems |-> 0]]
  /\ lastDispatch = NoDispatch
  /\ lastCall = NoCall
  /\ cleared = [s \in Sessions |-> FALSE]

\* the session logs out on the phone: the terminal disconnect
LoggedOut == [boom |-> TRUE, loggedOut |-> TRUE]

\* the queue's own operations and loop, beside one life of the session: the
\* connection restored at startup connects, opens and is logged out
QueueNext ==
  \/ \E s \in Sessions, retry \in 0..MaxRetry : addToQueue(s, retry)
  \/ \E s \in Sessions : startQueueProcessor(s)
  \/ \E s \in Sessions : stopQueueProcessor(s)
  \/ \E s \in Sessions : clearQueue(s)
  \/ \E s \in Sessions, t \in 1..MaxTimers : Tick(s, t)
  \/ \E s \in Sessions, ok \in BOOLEAN : SendReturns(s, ok)
  \/ \E s \in Sessions : InitFinish(s)
  \/ \E k \in 1..MaxSockets : SocketOpen(k)
  \/ \E k \in 1..MaxSockets : SocketClose(k, LoggedOut)

\* enqueues, starts, stops and ticks for a session whose connection never
\* opens: it is restored at startup, connects and is closed as logged out
QueueUnreadyNext ==
  \/ \E s \in Sessions, retry \in 0..MaxRetry : addToQueue(s, retry)
  \/ \E s \in Sessions : startQueueProcessor(s)
  \/ \E s \in Sessions : stopQueueProcessor(s)
  \/ \E s \in Sessions, t \in 1..MaxTimers : Tick(s, t)
  \/ \E s \in Sessions : InitFinish(s)
  \/ \E k \in 1..MaxSockets : SocketClose(k, LoggedOut)

\* enqueues and the loop for a session that connects, opens and stays open
QueueOpenNext ==
  \/ \E s \in Sessions, retry \in 0..MaxRetry : addToQueue(s, retry)
  \/ \E s \in Sessions, t \in 1..MaxTimers : Tick(s, t)
  \/ \E s \in Sessions, ok \in BOOLEAN : SendReturns(s, ok)
  \/ \E s \in Sessions : InitFinish(s)
  \/ \E k \in 1..MaxSockets : SocketOpen(k)

\* the queue's calls and loop for an open session whose queue file can be
\* damaged at any time
QueueCorruptNext ==
  \/ \E s \in Sessions, retry \in 0..MaxRetry : addToQueue(s, retry)
  \/ \E s \in Sessions : clearQueue(s)
  \/ \E s \in Sessions : StatusCall(s)
  \/ \E s \in Sessions : CorruptFile(s)
  \/ \E s \in Sessions, t \in 1..MaxTimers : Tick(s, t)
  \/ \E s \in Sessions, ok \in BOOLEAN : SendReturns(s, ok)
  \/ \E s \in Sessions : InitFinish(s)
  \/ \E k \in 1..MaxSockets : SocketOpen(k)

----------------------------------------------------------------------------
(* Send paths: src/helpers/messageHandler.js (sendTextMessage),              *)
(* src/helpers/mediaHandler.js (image, document, audio, location) and        *)
(* src/helpers/groupHandler.js (sendGroupMessage)                            *)

SendKinds == {"text", "image", "document", "audio", "location", "group-message"}

SendOptions ==
  [skipDuplicateCheck : BOOLEAN, useQueue : BOOLEAN, queueOnly : BOOLEAN,
   retry : 0..MaxRetry]

Idle == [at |-> "idle"]

NoSend == [made |-> FALSE]

\* options.sessionId: the session and queue the calls are made for
SendSession == "s1"

\* the functions that call isDuplicateMessage themselves, before anything else
ChecksFirst(kind) == kind \in {"text", "image"}

\* sendGroupMessage has no check of its own: it hands the message to
\* sendTextMessage with useQueue false, after it has enqueued
ChecksNested(kind) == kind = "group-message"

TrackerInput(kind) ==
  IF kind = "image" THEN ImageInput
  ELSE IF kind = "group-message" THEN GroupInput
  ELSE TextInput

\* the functions that call recordMessage after a send that returned
Records(kind) == kind \in {"text", "image", "group-message"}

\* sendImageMessage builds its result from latitude, longitude, name and
\* address, which it does not have: the ReferenceError takes it to its catch
\* block, which builds the requeued message from the same names
ResultThrows(kind) == kind = "image"

ReturnsQueuedAlt(o) == ~o.useQueue /\ o.queueOnly
\* if (options.useQueue !== false) { ...; if (options.queueOnly === true) return queued }
ReturnsQueued(o) == o.useQueue /\ o.queueOnly

\* what a step of a send-path call found before it acted
Before(kind, o) ==
  [ made |-> TRUE,
    skipDuplicateCheck |-> o.skipDuplicateCheck,
    useQueue |-> o.useQueue, queueOnly |-> o.queueOnly,
    prior |-> lastAdmitted,
    queueBefore |-> getQueue(SendSession),
    loopBefore |-> Loop(SendSession),
    sendsBefore |-> transportSends ]

\* A send-path call of the given kind, to its return or to its transport
\* send: the duplicate check of sendTextMessage and sendImageMessage, the
\* enqueue, the return for queueOnly, then for a group the check made by the
\* nested sendTextMessage, and socket.sendMessage
SendPath(kind, o, doSweep) ==
  LET first  == ChecksFirst(kind) /\ ~o.skipDuplicateCheck
      nested == ChecksNested(kind) /\ ~o.skipDuplicateCheck
      check  == DuplicateCheck(TrackerInput(kind), doSweep)
      before == Before(kind, o)
      Return(result, reported) ==
        /\ sending' = Idle
        /\ lastSend' = [before EXCEPT !.made = TRUE] @@
                       [entry |-> TRUE, result |-> result, dupReported |-> reported]
        /\ UNCHANGED transportSends
  IN
  /\ kind = sendKind
  /\ sending = Idle
  /\ IF first /\ check.dup
     THEN /\ recentMessages' = check.map
          /\ Return("skipped", TRUE)
          /\ UNCHANGED lastAdmitted
          /\ UNCHANGED queueVars
     ELSE /\ IF o.useQueue THEN Enqueue(SendSession, o.retry) ELSE UNCHANGED queueVars
          /\ IF ReturnsQueued(o)
             THEN /\ recentMessages' = IF first THEN check.map ELSE recentMessages
                  /\ Return("queued", FALSE)
                  /\ lastAdmitted' = IF o.skipDuplicateCheck THEN lastAdmitted
                                     ELSE now
             ELSE IF nested /\ check.dup
             THEN /\ recentMessages' = check.map
                  /\ Return("unflagged", TRUE)
                  /\ lastAdmitted' = IF o.useQueue
                                     THEN now
                                     ELSE lastAdmitted
             ELSE /\ transportSends < MaxSends
                  /\ recentMessages' = IF first \/ nested THEN check.map ELSE recentMessages
                  /\ transportSends' = transportSends + 1
                  /\ sending' = [at |-> "send", kind |-> kind, options |-> o]
                  /\ lastSend' = [before EXCEPT !.made = TRUE] @@
                                 [entry |-> TRUE, result |-> "sending", dupReported |-> FALSE,
                                  jid |-> TransportJid(kind, CalledWith(kind))]
                  /\ lastAdmitted' = IF o.skipDuplicateCheck THEN lastAdmitted
                                     ELSE now
  /\ lastCheck' = NoCheck
  /\ UNCHANGED <<sendKind, now, clockSteps, lastWrite>>
  /\ UNCHANGED nonSendVars

\* socket.sendMessage of the suspended call returns or throws: the message is
\* recorded by the kinds that record and the result returned; after a failure
\* the message is enqueued with one retry less if retry > 0 and the queue is
\* in use, else the error is thrown
SendDone(ok) ==
  LET kind == sending.kind
      o == sending.options
      before == Before(kind, o)
      failed == ~ok \/ ResultThrows(kind)
      requeue == failed /\ o.retry > 0 /\ o.useQueue /\ ~ResultThrows(kind)
  IN
  /\ sending # Idle
  /\ recentMessages' = IF ok /\ Records(kind)
                       THEN Put(recentMessages, KeyOf(TrackerInput(kind)), now)
                       ELSE recentMessages
  /\ IF requeue THEN Enqueue(SendSession, o.retry - 1) ELSE UNCHANGED queueVars
  /\ sending' = Idle
  /\ lastSend' = [before EXCEPT !.made = TRUE] @@
                 [ entry |-> FALSE, dupReported |-> FALSE,
                   ok |-> ok, kind |-> kind, retry |-> o.retry,
                   result |-> IF requeue THEN "requeued"
                              ELSE IF failed THEN "threw" ELSE "sent" ]
  /\ lastCheck' = NoCheck
  /\ UNCHANGED <<transportSends, lastAdmitted>>
  /\ UNCHANGED <<sendKind, now, clockSteps, lastWrite>>
  /\ UNCHANGED nonSendVars

SendInit ==
  /\ sendKind \in SendKinds
  /\ sending = Idle
  /\ transportSends = 0
  /\ lastAdmitted = -1
  /\ lastSend = NoSend

\* no send-path call is made
SendIdle ==
  /\ SendInit
  /\ sendKind = "text"

SendNext ==
  \/ \E kind \in SendKinds, o \in SendOptions, doSweep \in BOOLEAN : SendPath(kind, o, doSweep)
  \/ \E ok \in BOOLEAN : SendDone(ok)
  \/ AdvanceClock(MESSAGE_TRACKING_TTL - 1)

\* The interval callback of timer t for a queue whose items were put there by
\* send-path calls of the run's kind made without skipDuplicateCheck:
\* processNextInQueue hands the head to the send function of its type with
\* the item's options and useQueue false. The function makes its duplicate
\* check (sendGroupMessage through sendTextMessage); on a hit it returns a
\* skipped result, which processNextInQueue counts as a success and saves;
\* else the tick waits in socket.sendMessage
LoopTick(s, t, doSweep) ==
  /\ t \in intervals[s]
  /\ LET queueData == getQueue(s)
         kind == sendKind
         checks == ChecksFirst(kind) \/ ChecksNested(kind)
         check == DuplicateCheck(TrackerInput(kind), doSweep)
     IN IF NotReady(s) \/ queueData.items = << >>
        THEN /\ SetLoop(s, Stop(Loop(s)))
             /\ queueFile' = [queueFile EXCEPT
                                ![s] = IF NotReady(s) THEN @ ELSE initQueue(@)]
             /\ lastDispatch' = NoDispatch
             /\ lastCall' = [op |-> "tick", ready |-> ~NotReady(s),
                             reinit |-> ~NotReady(s) /\ queueFile[s] = Corrupt,
                             itemsBefore |-> queueData.items]
             /\ UNCHANGED <<inFlight, dispatched, dispatchesLeft, recentMessages,
                            transportSends>>
        ELSE LET message == Head(queueData.items)
                 copy == [queueData EXCEPT !.items = Tail(@)]
                 left == [dispatchesLeft[s] EXCEPT ![message.id] =
                            IF @ < 0 THEN @ ELSE @ - 1]
             IN /\ dispatched' = [dispatched EXCEPT ![s] = @ \cup {message.id}]
                /\ lastDispatch' = [made |-> TRUE, id |-> message.id,
                                    before |-> dispatched[s]]
                /\ UNCHANGED <<processors, queueStatus, intervals>>
                /\ IF checks /\ check.dup
                   THEN /\ recentMessages' = check.map
                        /\ queueFile' = [queueFile EXCEPT ![s] =
                                           [copy EXCEPT !.stats.success = @ + 1,
                                                        !.lastProcessed = TRUE]]
                        /\ dispatchesLeft' = [dispatchesLeft EXCEPT ![s] =
                                                Kept(left, queueFile'[s], inFlight[s])]
                        /\ lastCall' = [ op |-> "send", ok |-> TRUE, message |-> message,
                                         statsBefore |-> queueData.stats,
                                         copyItems |-> copy.items,
                                         counted |-> "success", transport |-> "none" ]
                        /\ UNCHANGED <<inFlight, transportSends>>
                   ELSE /\ BagCardinality(inFlight[s]) < MaxInFlight
                        /\ transportSends < MaxSends
                        /\ recentMessages' = IF checks THEN check.map ELSE recentMessages
                        /\ transportSends' = transportSends + 1
                        /\ inFlight' = [inFlight EXCEPT ![s] = @ (+)
                                          SetToBag({[queueData |-> copy, message |-> message]})]
                        /\ dispatchesLeft' = [dispatchesLeft EXCEPT ![s] = left]
                        /\ lastCall' = NoCall
                        /\ UNCHANGED queueFile
  /\ lastSend' = NoSend
  /\ lastCheck' = NoCheck
  /\ UNCHANGED <<enqueued, cleared>>
  /\ UNCHANGED <<sendKind, sending, lastAdmitted>>
  /\ UNCHANGED <<now, clockSteps, lastWrite>>
  /\ UNCHANGED nonSendVars

\* socket.sendMessage of a suspended tick returns or throws inside the send
\* function of the run's kind: after a return the message is recorded by the
\* kinds that record and the result built, which throws for an image; the
\* function rethrows a failure, as useQueue is false; processNextInQueue
\* counts a success or a failure in its copy, appends a failed message that
\* has retries left, and saves its copy; the callback stops the loop if
\* nothing was processed and the file holds no item
LoopSendReturns(s, ok) ==
  \E tick \in BagToSet(inFlight[s]) :
    LET message == tick.message
        kind == sendKind
        processed == ok /\ ~ResultThrows(kind)
        queueData ==
          IF processed
          THEN [tick.queueData EXCEPT !.stats.success = @ + 1, !.lastProcessed = TRUE]
          ELSE [tick.queueData EXCEPT
                  !.stats.failed = @ + 1,
                  !.lastProcessed = TRUE,
                  !.items = IF message.retry > 0
                            THEN Append(@, [message EXCEPT !.retry = @ - 1])
                            ELSE @]
    IN /\ queueFile' = [queueFile EXCEPT ![s] = queueData]
       /\ SetLoop(s, IF ~processed /\ queueData.items = << >>
                     THEN Stop(Loop(s)) ELSE Loop(s))
       /\ recentMessages' = IF ok /\ Records(kind)
                            THEN Put(recentMessages, KeyOf(TrackerInput(kind)), now)
                            ELSE recentMessages
       /\ inFlight' = [inFlight EXCEPT ![s] = @ (-) SetToBag({tick})]
       /\ lastDispatch' = NoDispatch
       /\ lastCall' = [ op |-> "send", ok |-> processed, message |-> message,
                        statsBefore |-> getQueue(s).stats,
                        copyItems |-> tick.queueData.items,
                        counted |-> IF processed THEN "success" ELSE "failed",
                        transport |-> IF ok THEN "returned" ELSE "threw" ]
       /\ dispatchesLeft' = [dispatchesLeft EXCEPT
                               ![s] = Kept(@, queueFile'[s], inFlight'[s])]
       /\ lastSend' = NoSend
       /\ lastCheck' = NoCheck
       /\ UNCHANGED <<enqueued, dispatched, cleared>>
       /\ UNCHANGED <<sendKind, sending, transportSends, lastAdmitted>>
       /\ UNCHANGED <<now, clockSteps, lastWrite>>
       /\ UNCHANGED nonSendVars

\* the calls that make the duplicate check and put their message on the queue
Checked == {o \in SendOptions : ~o.skipDuplicateCheck /\ o.useQueue}

\* send-path calls made with the duplicate check and the queue in use, and the
\* loop of the session, which connects and opens, dispatching their items
SendLoopNext ==
  \/ \E kind \in SendKinds, o \in Checked, doSweep \in BOOLEAN : SendPath(kind, o, doSweep)
  \/ \E ok \in BOOLEAN : SendDone(ok)
  \/ \E s \in Sessions, t \in 1..MaxTimers, doSweep \in BOOLEAN : LoopTick(s, t, doSweep)
  \/ \E s \in Sessions, ok \in BOOLEAN : LoopSendReturns(s, ok)
  \/ AdvanceClock(MESSAGE_TRACKING_TTL - 1)
  \/ \E s \in Sessions : InitFinish(s)
  \/ \E k \in 1..MaxSockets : SocketOpen(k)

----------------------------------------------------------------------------
(* Personalized content: src/helpers/bulkHandler.js 389-422 *)

NotRendered == [made |-> FALSE]

\* `{{${key}}}`
Placeholder(key) == <<"{", "{", key, "}", "}">>

\* content.split(placeholder).join(value): the occurrences of the placeholder
\* found from the left, none overlapping another, each replaced by the value
RECURSIVE SplitJoin(_, _, _)
SplitJoin(content, placeholder, value) ==
  IF Len(content) < Len(placeholder) THEN content
  ELSE IF SubSeq(content, 1, Len(placeholder)) = placeholder
       THEN value \o SplitJoin(SubSeq(content, Len(placeholder) + 1, Len(content)),
                               placeholder, value)
       ELSE <<Head(content)>> \o SplitJoin(Tail(content), placeholder, value)

\* personalizeContent for a string: one split/join per entry of
\* recipient.variables, in the order of Object.entries, each on the outcome
\* of the one before
RECURSIVE personalizeContent(_, _)
personalizeContent(content, entries) ==
  IF entries = <<>> THEN content
  ELSE personalizeContent(
         SplitJoin(content, Placeholder(Head(entries).key), Head(entries).value),
         Tail(entries))

\* the pieces the templates are put together from: placeholders of the names
\* a, b and c, a letter and single braces
Pieces == { Placeholder("a"), Placeholder("b"), Placeholder("c"),
            <<"x">>, <<"{">>, <<"}">> }

RECURSIVE Concats(_)
Concats(n) ==
  IF n = 0 THEN {<<>>}
  ELSE LET shorter == Concats(n - 1)
       IN shorter \cup {p \o q : p \in Pieces, q \in shorter}

Templates == Concats(MaxPieces)

Keys == {"a", "b"}

Values == { <<"V">>, <<>>, Placeholder("a"), Placeholder("b"), <<"a">> }

\* recipient.variables: absent or empty, or one or two distinct keys in the
\* order they were inserted
VariableMaps ==
  {<<>>}
  \cup {<<[key |-> k, value |-> v]>> : k \in Keys, v \in Values}
  \cup {<<[key |-> k[1], value |-> v1], [key |-> k[2], value |-> v2]>> :
          k \in {<<"a", "b">>, <<"b", "a">>}, v1 \in Values, v2 \in Values}

\* the content of the personalized message is made for one recipient
Personalize ==
  /\ ~rendered.made
  /\ rendered' = [made |-> TRUE, content |-> personalizeContent(template, variables)]
  /\ UNCHANGED <<template, variables>>
  /\ UNCHANGED nonPersVars

PersInit ==
  /\ template \in Templates
  /\ variables \in VariableMaps
  /\ rendered = NotRendered

\* no personalized message is made
PersIdle ==
  /\ template = <<>>
  /\ variables = <<>>
  /\ rendered = NotRendered

PersNext == Personalize

----------------------------------------------------------------------------
(* Specifications: one per component, the other components at rest *)

InitConn == ConnInit /\ DedupInit /\ BulkInit /\ QueueInit /\ SendIdle /\ PersIdle

SpecConn == InitConn /\ [][ConnNext]_vars

InitDedup == DedupInit /\ ConnIdle /\ BulkInit /\ QueueInit /\ SendIdle /\ PersIdle

SpecDedup == InitDedup /\ [][DedupNext]_vars

InitBulk == BulkInit /\ ConnIdle /\ DedupInit /\ QueueInit /\ SendIdle /\ PersIdle

SpecBulk == InitBulk /\ [][BulkNext]_vars

\* every awaited send returns or throws, and the delay timer fires
SpecBulkLive ==
  /\ InitBulk /\ [][BulkNext]_vars
  /\ WF_vars(\E returned \in BOOLEAN, f \in Faults : SendSettles(returned, f))
  /\ WF_vars(DelayElapsed)

InitBulkConn == BulkInit /\ ConnInit /\ DedupInit /\ QueueInit /\ SendIdle /\ PersIdle

SpecBulkConn == InitBulkConn /\ [][BulkConnNext]_vars

InitQueue == QueueInit /\ ConnInit /\ DedupInit /\ BulkInit /\ SendIdle /\ PersIdle

SpecQueue == InitQueue /\ [][QueueNext]_vars

SpecQueueUnready == InitQueue /\ [][QueueUnreadyNext]_vars

\* the interval timer keeps firing, every send returns or throws, and the
\* connection is made and opens
SpecQueueLive ==
  /\ InitQueue /\ [][QueueOpenNext]_vars
  /\ WF_vars(\E s \in Sessions, t \in 1..MaxTimers : Tick(s, t))
  /\ WF_vars(\E s \in Sessions, ok \in BOOLEAN : SendReturns(s, ok))
  /\ WF_vars(\E s \in Sessions : InitFinish(s))
  /\ WF_vars(\E k \in 1..MaxSockets : SocketOpen(k))

SpecQueueCorrupt == InitQueue /\ [][QueueCorruptNext]_vars

InitSend == SendInit /\ DedupInit /\ QueueInit /\ ConnIdle /\ BulkInit /\ PersIdle

SpecSend == InitSend /\ [][SendNext]_vars

InitSendLoop == SendInit /\ DedupInit /\ QueueInit /\ ConnInit /\ BulkInit /\ PersIdle

SpecSendLoop == InitSendLoop /\ [][SendLoopNext]_vars

InitPers == PersInit /\ ConnIdle /\ DedupInit /\ BulkInit /\ QueueInit /\ SendIdle

SpecPers == InitPers /\ [][PersNext]_vars

----------------------------------------------------------------------------
(* Claims about the connection lifecycle *)

\* C4: counting the recoverable disconnects of a session since it was created
\* or last reached open, the 1st to the 5th schedule a reconnect and the 6th
\* tears the session down.
C4_TeardownOnSixth ==
  lastClose.outcome # "none" =>
    /\ lastClose.n <= MAX_RECONNECTION_ATTEMPTS + 1
    /\ lastClose.n <= MAX_RECONNECTION_ATTEMPTS => lastClose.outcome = "reconnect"
    /\ lastClose.n = MAX_RECONNECTION_ATTEMPTS + 1 => lastClose.outcome = "teardown"

BackoffTable == <<1000, 2000, 4000, 8000, 16000>>

\* C5: the delay scheduled before reconnect attempt n, 1 <= n <= 5, is
\* 1000, 2000, 4000, 8000, 16000 ms, and never above 30000 ms.
C5_BackoffDelays ==
  \A s \in Sessions : \A t \in BagToSet(reconnectTimers[s]) :
    /\ t.n \in 1..MAX_RECONNECTION_ATTEMPTS
    /\ t.delay = BackoffTable[t.n]
    /\ t.delay <= 30000

\* a reconnect is pending for the fifth attempt in a row
C5_FifthAttemptScheduled ==
  \E s \in Sessions : \E t \in BagToSet(reconnectTimers[s]) : t.n = 5

ClaimedTransitions ==
  { <<"absent", "connecting">>, <<"connecting", "open">>, <<"open", "closed">>,
    <<"closed", "connecting">>, <<"closed", "absent">>, <<"connecting", "absent">> }

\* C9 as stated: the recorded state changes only along Connecting->Open,
\* Open->Closed, Closed->Connecting, Closed->Terminated and
\* Connecting->Terminated, a new entry starting in Connecting.
C9_OnlyClaimedTransitions == trans \subseteq ClaimedTransitions

\* C9 as amended: besides the claimed changes the state also goes
\* Connecting->Closed, Open->Terminated, Closed->Open and Open->Connecting;
\* an absent (new or Terminated) session only ever becomes Connecting.
C9_Transitions ==
  trans \subseteq ClaimedTransitions \cup
    { <<"connecting", "closed">>, <<"open", "absent">>,
      <<"closed", "open">>, <<"open", "connecting">> }

\* a connection attempt that failed before it opened left the entry Closed
C9_ClosedWhileConnecting == <<"connecting", "closed">> \in trans

\* C10 as stated: the lookup yields a handle only when the state is Open.
C10_HandleOnlyWhenOpen ==
  \A s \in Sessions : getConnection(s) # NoConn => getConnection(s).state = "open"

\* C10 as amended: the lookup signals absence only for a session without an
\* entry; for every entry, Connecting, Open or Closed, it yields the stored
\* handle together with the recorded state.
C10_LookupYieldsEntry ==
  \A s \in Sessions :
    /\ getConnection(s) = NoConn <=> connections[s] = NoConn
    /\ connections[s] # NoConn =>
         /\ getConnection(s).socket = connections[s].socket
         /\ getConnection(s).socket \in 1..MaxSockets
         /\ getConnection(s).state = connections[s].state
         /\ getConnection(s).state \in {"connecting", "open", "closed"}

\* the session has no entry and is not listed
NotFound(s) ==
  /\ getConnection(s) = NoConn
  /\ \A c \in listConnections : c.id # s

\* C11: a session torn down because its reconnect attempts were exhausted is
\* absent from getConnection and listConnections, with no reconnect pending,
\* in every later state until a new connect request for it is made.
C11_GoneAfterGiveUp ==
  \A s \in Sessions :
    ended[s] = "exhausted" => NotFound(s) /\ reconnectTimers[s] = EmptyBag

\* C12: after disconnect(sessionId) has returned true the entry is removed
\* and the auth directory erased, and the session stays absent in every later
\* state until a new connect request for it is made.
C12_GoneAfterDisconnect ==
  \A s \in Sessions :
    ended[s] = "disconnected" => NotFound(s) /\ ~sessionDir[s]

\* the lookup hands out the handle of a session that is Closed
C10_HandleWhileClosed ==
  \E s \in Sessions :
    getConnection(s) # NoConn /\ getConnection(s).state = "closed"

----------------------------------------------------------------------------
(* Claims about the duplicate tracker *)

ExpectedAnswer(prior) == prior >= 0 /\ now - prior < MESSAGE_TRACKING_TTL

\* C3 as stated: for any tuple (session, recipient, kind, content) the first
\* isDuplicate call returns false and records it, an identical call less than
\* TTL after that record returns true, and one made once the TTL has elapsed
\* returns false again and re-records the tuple.
C3_PerTuple ==
  lastCheck.made =>
    /\ lastCheck.result = ExpectedAnswer(lastCheck.prior)
    /\ ~lastCheck.result =>
         /\ Tracked(recentMessages, KeyOf(lastCheck.input))
         /\ recentMessages[KeyOf(lastCheck.input)] = now

\* C3 as amended: the same, per message key instead of per tuple: contents
\* longer than 100 characters that agree in their first 50 characters and in
\* their length count as the same content.
C3_PerKey ==
  lastCheck.made =>
    /\ lastCheck.result = ExpectedAnswer(lastCheck.priorOfKey)
    /\ ~lastCheck.result =>
         /\ Tracked(recentMessages, KeyOf(lastCheck.input))
         /\ recentMessages[KeyOf(lastCheck.input)] = now

\* a check made exactly TTL after the record of its key is answered false
C3_FalseAgainAtTTL ==
  /\ lastCheck.made
  /\ ~lastCheck.result
  /\ lastCheck.priorOfKey >= 0
  /\ now - lastCheck.priorOfKey = MESSAGE_TRACKING_TTL

----------------------------------------------------------------------------
(* Claims about bulk campaigns *)

CountsAgree(c) ==
  c # NoCampaign =>
    /\ c.processedCount = c.successCount + c.failedCount
    /\ c.processedCount <= c.totalRecipients

\* C6: in every state of a campaign, whatever the sends, the snapshot writes
\* and the progress callbacks do, processedCount = successCount + failedCount
\* and processedCount <= totalRecipients.
C6_CountsAgree == CountsAgree(campaign) /\ CountsAgree(campaignFile)

Completed(c) ==
  (c # NoCampaign /\ c.status = "completed") =>
    /\ c.processedCount = c.totalRecipients
    /\ \A i \in 1..c.totalRecipients : c.recipients[i] \in {"success", "failed"}

\* C7: whenever a campaign's status is completed, processedCount equals
\* totalRecipients and no roster entry is still pending.
C7_CompletedIsComplete == Completed(campaign) /\ Completed(campaignFile)

\* C8: once the persisted status has left processing, the persisted record
\* (status, counts, roster, end time) never changes again.
C8_SettledIsFinal == settled # NoCampaign => campaignFile = settled

----------------------------------------------------------------------------
(* Claims about the outbound queue *)

\* C1: for every session at most one interval timer of the queue loop is
\* alive at any instant, whatever the interleaving of enqueue, start, stop,
\* clear and ticks, and the processing flag is true exactly when one is.
C1_OneLoop ==
  \A s \in Sessions :
    /\ Cardinality(intervals[s]) <= 1
    /\ (queueStatus[s].set /\ queueStatus[s].processing) <=> intervals[s] # {}

\* the one loop of a session is running with two of its ticks in a send
C1_LoopWithTwoTicks ==
  \E s \in Sessions :
    /\ queueStatus[s].processing
    /\ Cardinality(intervals[s]) = 1
    /\ BagCardinality(inFlight[s]) = 2

\* C2: the items of a session's queue are dispatched in the order they were
\* enqueued, a retried item alone moving to the tail: no item is dispatched
\* for the first time after an item enqueued later than it was dispatched.
C2_DispatchInEnqueueOrder ==
  (lastDispatch.made /\ lastDispatch.id \notin lastDispatch.before) =>
    \A j \in lastDispatch.before : j < lastDispatch.id

IsIn(x, seq) == \E i \in 1..Len(seq) : seq[i] = x

\* C13: enqueue appends the item at the tail of the persisted queue, returns
\* the previous length plus one, and on return a loop is active for the
\* session: one was started if and only if none was active.
C13_Enqueue ==
  lastCall.op = "addToQueue" =>
    \A s \in Sessions :
      /\ getQueue(s).items = Append(lastCall.itemsBefore, lastCall.message)
      /\ lastCall.queueLength = Len(lastCall.itemsBefore) + 1
      /\ queueStatus[s].processing
      /\ processors[s] \in intervals[s]
      /\ IF lastCall.timersBefore = {}
         THEN Cardinality(intervals[s]) = 1
         ELSE intervals[s] = lastCall.timersBefore

\* an enqueue onto a non-empty queue whose loop had been stopped started it
C13_EnqueueRestartsLoop ==
  /\ lastCall.op = "addToQueue"
  /\ lastCall.itemsBefore # << >>
  /\ lastCall.timersBefore = {}

\* C14: after clear() has returned the persisted queue holds no item until
\* the next enqueue, even if a dispatch was in flight when it was called; it
\* returns the number of items that were queued and stops the loop.
C14_EmptyAfterClear ==
  /\ \A s \in Sessions : cleared[s] => getQueue(s).items = << >>
  /\ lastCall.op = "clearQueue" =>
       /\ lastCall.removedCount = Len(lastCall.itemsBefore)
       /\ \A s \in Sessions : intervals[s] = {} /\ ~queueStatus[s].processing

\* C15: when the send of a dispatched item returns, the persisted success
\* counter has grown by exactly one and the item is not in the queue; when it
\* throws, the failed counter has grown by exactly one and the item is at the
\* tail with one retry less if it had retries left, else not in the queue.
C15_DispatchOutcome ==
  lastCall.op = "send" =>
    \A s \in Sessions :
      LET q == getQueue(s)
          m == lastCall.message
      IN IF lastCall.ok
         THEN /\ q.stats.success = lastCall.statsBefore.success + 1
              /\ q.stats.failed = lastCall.statsBefore.failed
              /\ ~IsIn(m, q.items)
         ELSE /\ q.stats.failed = lastCall.statsBefore.failed + 1
              /\ q.stats.success = lastCall.statsBefore.success
              /\ IF m.retry > 0
                 THEN q.items # << >> /\ q.items[Len(q.items)] = [m EXCEPT !.retry = @ - 1]
                 ELSE ~IsIn(m, q.items)

----------------------------------------------------------------------------
(* Claims about the send paths *)

\* the call returned without enqueuing and without a transport send
Suppressed ==
  /\ lastSend.result \in {"skipped", "unflagged"}
  /\ getQueue(SendSession) = lastSend.queueBefore
  /\ transportSends = lastSend.sendsBefore

\* C16: for every message kind a send-path call without skipDuplicateCheck
\* made less than TTL after an earlier one with the same session, recipient
\* and content that was let through is suppressed as a duplicate, and a call
\* with skipDuplicateCheck is not suppressed.
C16_SecondCallSuppressed ==
  (lastSend.made /\ lastSend.entry) =>
    /\ ( /\ ~lastSend.skipDuplicateCheck
         /\ lastSend.prior >= 0
         /\ now - lastSend.prior < MESSAGE_TRACKING_TTL ) => Suppressed
    /\ lastSend.skipDuplicateCheck => ~Suppressed

\* C17: when the duplicate check reports a duplicate the send-path call
\* returns a result flagged skipped and leaves the queue, its stats, the loop
\* and the transport as they were.
C17_DuplicateIsNoOp ==
  (lastSend.made /\ lastSend.dupReported) =>
    /\ lastSend.result = "skipped"
    /\ getQueue(SendSession) = lastSend.queueBefore
    /\ Loop(SendSession) = lastSend.loopBefore
    /\ transportSends = lastSend.sendsBefore
    /\ sending = Idle

\* C18: a send-path call with queueOnly and the queue in use, not reported a
\* duplicate, appends exactly one item to the session's queue and returns a
\* queued result without invoking the transport send.
C18_QueueOnly ==
  ( /\ lastSend.made /\ lastSend.entry
    /\ lastSend.useQueue /\ lastSend.queueOnly
    /\ ~lastSend.dupReported ) =>
    /\ lastSend.result = "queued"
    /\ Len(getQueue(SendSession).items) = Len(lastSend.queueBefore.items) + 1
    /\ SubSeq(getQueue(SendSession).items, 1, Len(lastSend.queueBefore.items))
         = lastSend.queueBefore.items
    /\ transportSends = lastSend.sendsBefore
    /\ sending = Idle

\* a document was queued behind another item by a queueOnly call
C18_DocumentQueued ==
  /\ lastSend.made /\ lastSend.entry
  /\ sendKind = "document"
  /\ lastSend.queueOnly
  /\ lastSend.result = "queued"
  /\ lastSend.queueBefore.items # << >>

\* C19: cancel(id) returns true, leaving the record cancelled with an end
\* time, only for a campaign whose persisted status is processing; otherwise
\* it returns false and leaves the record unchanged, so that a cancel made
\* after one that returned true returns false.
C19_CancelOnlyProcessing ==
  lastCancel.made =>
    /\ lastCancel.returned = "true" =>
         /\ lastCancel.before.status = "processing"
         /\ campaignFile.status = "cancelled" /\ campaignFile.endTime
    /\ lastCancel.returned = "false" =>
         /\ lastCancel.before.status # "processing"
         /\ campaignFile = lastCancel.before
    /\ lastCancel.before.status # "processing" => lastCancel.returned = "false"
    /\ lastCancel.cancelledBefore => lastCancel.returned = "false"

\* C20: the recipients of a campaign are attempted in roster order, one at a
\* time and exactly once each: when the send for a recipient starts, the
\* outcome of every recipient before it is in the campaign and in the file.
C20_RosterOrder ==
  campaign # NoCampaign =>
    /\ \A i \in 1..MaxRecipients :
         /\ attempts[i] <= 1
         /\ attempts[i] = 1 =>
              /\ i <= campaign.totalRecipients
              /\ \A j \in 1..(i - 1) :
                   /\ attempts[j] = 1
                   /\ campaign.recipients[j] # "pending"
                   /\ campaignFile.recipients[j] # "pending"
    /\ campaign.status = "completed" =>
         \A i \in 1..campaign.totalRecipients : attempts[i] = 1

\* the send for the second recipient of a campaign is under way
C20_SecondRecipientAttempted ==
  /\ bulk.at = "send"
  /\ bulk.i = 2
  /\ attempts[2] = 1

\* C21: every campaign started with n >= 1 recipients eventually reaches
\* status completed, in the campaign and in the file, with
\* successCount + failedCount = n, whatever the sends do, provided each of
\* them returns or throws.
C21_EventuallyCompleted ==
  (campaign # NoCampaign) ~>
    /\ campaign.status = "completed"
    /\ campaignFile.status = "completed"
    /\ campaign.successCount + campaign.failedCount = campaign.totalRecipients

----------------------------------------------------------------------------
(* Claims about personalized content *)

\* the entries of the map whose placeholder the content starts with
StartsWithPlaceholder(content, entries) ==
  { i \in 1..Len(entries) :
      /\ Len(content) >= 5
      /\ SubSeq(content, 1, 5) = Placeholder(entries[i].key) }

\* the template with each placeholder of a key of the map, as it stands in
\* the template, replaced by that key's value, and all else kept
RECURSIVE Substituted(_, _)
Substituted(content, entries) ==
  IF content = <<>> THEN <<>>
  ELSE LET hit == StartsWithPlaceholder(content, entries)
       IN IF hit # {}
          THEN entries[CHOOSE i \in hit : TRUE].value
               \o Substituted(SubSeq(content, 6, Len(content)), entries)
          ELSE <<Head(content)>> \o Substituted(Tail(content), entries)

\* C22: the personalized content is the template with every occurrence of
\* {{k}}, for each key k of the recipient's variable map, replaced by that
\* key's value, and with every other placeholder left as it is.
C22_Substitution ==
  rendered.made => rendered.content = Substituted(template, variables)

----------------------------------------------------------------------------
(* Claims about the queue of a session that is not ready *)

\* the k items enqueued so far are all in the file, in the order of their
\* enqueue, and none has been handed to a send
NothingLeft(s) ==
  /\ Len(getQueue(s).items) = enqueued[s]
  /\ \A i \in 1..enqueued[s] : getQueue(s).items[i].id = i
  /\ dispatched[s] = {}
  /\ inFlight[s] = EmptyBag

\* C23 as stated: after k enqueues to a session whose transport is never
\* ready the queue length stays k and all the stats stay zero.
C23_StatsStayZero ==
  \A s \in Sessions :
    /\ NothingLeft(s)
    /\ getQueue(s).stats = [total |-> 0, success |-> 0, failed |-> 0]

\* C23, amended: after k enqueues to a session whose transport is never ready
\* the queue length stays k, no item is dequeued, dispatched or dropped, the
\* success and failed counters stay zero, and the total counter is k.
C23_NothingLeavesQueue ==
  \A s \in Sessions :
    /\ NothingLeft(s)
    /\ getQueue(s).stats = [total |-> enqueued[s], success |-> 0, failed |-> 0]

\* three items are enqueued and the loop started by an enqueue has stopped
C23_ThreeItemsLoopStopped ==
  \E s \in Sessions :
    /\ enqueued[s] = 3
    /\ queueStatus[s].set /\ ~queueStatus[s].processing
    /\ processors[s] = NoTimer

----------------------------------------------------------------------------
(* Claims about the retries of the queue *)

\* C24: an item enqueued with retry count r is handed to a send by the loop
\* at most r + 1 times, the retry count of no item is negative, and a failed
\* item without a positive retry count is not appended again: the file then
\* holds the items of the copy the tick took it from.
C24_BoundedDispatch ==
  \A s \in Sessions :
    /\ \A i \in 1..MaxItems : dispatchesLeft[s][i] >= 0
    /\ \A i \in 1..Len(getQueue(s).items) : getQueue(s).items[i].retry >= 0
    /\ \A tick \in BagToSet(inFlight[s]) : tick.message.retry >= 0
    /\ (lastCall.op = "send" /\ ~lastCall.ok /\ lastCall.message.retry <= 0) =>
         getQueue(s).items = lastCall.copyItems

----------------------------------------------------------------------------
(* Claims about the loop of a session that is not ready *)

\* a step that is an enqueue or an explicit start for session s
Rearm(s) ==
  \/ \E retry \in 0..MaxRetry : addToQueue(s, retry)
  \/ startQueueProcessor(s)

\* C25: a tick that finds the transport not ready stops the loop and leaves
\* the file, the stats and the dispatches alone; while no loop runs no item
\* is dispatched, whatever the transport does, and only an enqueue or an
\* explicit start brings a loop back; such a step does start one loop.
C25_StoppedUntilRearmed ==
  [][\A s \in Sessions :
       /\ (lastCall'.op = "tick" /\ ~lastCall'.ready) =>
            /\ intervals'[s] = {}
            /\ processors'[s] = NoTimer
            /\ ~queueStatus'[s].processing
            /\ queueFile'[s] = queueFile[s]
            /\ inFlight'[s] = inFlight[s]
            /\ dispatched'[s] = dispatched[s]
       /\ intervals[s] = {} =>
            /\ BagCardinality(inFlight'[s]) <= BagCardinality(inFlight[s])
            /\ ~lastDispatch'.made
            /\ intervals'[s] # {} => Rearm(s)
       /\ (intervals[s] = {} /\ Rearm(s)) =>
            /\ Cardinality(intervals'[s]) = 1
            /\ processors'[s] \in intervals'[s]
            /\ queueStatus'[s].processing
    ]_vars

\* a tick has just found the transport not ready while items wait
C25_UnreadyTickWithItems ==
  /\ lastCall.op = "tick"
  /\ ~lastCall.ready
  /\ lastCall.itemsBefore # << >>

----------------------------------------------------------------------------
(* Claims about the loop of a session that is ready *)

\* the queue of s is empty and its loop has stopped
Drained(s) ==
  /\ getQueue(s).items = << >>
  /\ ~queueStatus[s].processing
  /\ processors[s] = NoTimer
  /\ intervals[s] = {}

\* C26: once the transport is ready for good and the last item has been
\* enqueued, the queue becomes empty and the loop stops, whatever the sends
\* do, and with no further enqueue it stays so: the loop does not stop while
\* items remain.
C26_EventuallyDrained ==
  \A s \in Sessions :
    (~NotReady(s) /\ enqueued[s] = MaxItems) ~> [](Drained(s))

----------------------------------------------------------------------------
(* Claims about the classification of disconnects *)

\* C27: a disconnect for any reason but logged-out is handled as recoverable:
\* a reconnect is scheduled while attempts remain, the session being torn
\* down only when none does; a logged-out disconnect alone is terminal: the
\* session is torn down at once and its attempt counter reset.
C27_OnlyLoggedOutTerminal ==
  lastClose.reason # "none" =>
    IF lastClose.reason = "loggedOut"
    THEN /\ lastClose.outcome = "none"
         /\ connections[lastClose.sid] = NoConn
         /\ reconnectionAttempts[lastClose.sid] = 0
    ELSE /\ lastClose.outcome \in {"reconnect", "teardown"}
         /\ lastClose.outcome = "reconnect" =>
              reconnectTimers[lastClose.sid] # EmptyBag

----------------------------------------------------------------------------
(* Claims about the age of a tracker entry *)

\* C28: a duplicate hit does not refresh the entry: when the entry of the
\* checked tuple was last written at t0, a check at a time t with
\* t - t0 < TTL answers true and leaves the entry at t0, and a check with
\* t - t0 >= TTL answers false and writes the entry anew.
C28_HitKeepsTimestamp ==
  (lastCheck.made /\ lastCheck.priorOfKey >= 0) =>
    LET messageKey == KeyOf(lastCheck.input)
        t0 == lastCheck.priorOfKey
    IN /\ Tracked(recentMessages, messageKey)
       /\ IF now - t0 < MESSAGE_TRACKING_TTL
          THEN /\ lastCheck.result
               /\ recentMessages[messageKey] = t0
               /\ LastWriteOfKey(lastCheck.input) = t0
          ELSE /\ ~lastCheck.result
               /\ recentMessages[messageKey] = now
               /\ LastWriteOfKey(lastCheck.input) = now

\* a duplicate hit in the last millisecond of an entry written after the start
C28_HitJustBeforeExpiry ==
  /\ lastCheck.made
  /\ lastCheck.result
  /\ lastCheck.priorOfKey > 0
  /\ now - lastCheck.priorOfKey = MESSAGE_TRACKING_TTL - 1

----------------------------------------------------------------------------
(* Claims about the sweep of the tracker *)

\* the map as it would be had no lookup ever swept: every key written so far,
\* with the time of its latest write
Unswept ==
  LET written == {t \in DedupInputs : LastWriteOfKey(t) >= 0}
  IN [k \in {KeyOf(t) : t \in written} |->
        LastWriteOfKey(CHOOSE t \in written : KeyOf(t) = k)]

\* what a lookup of t answers on the map m
Answer(m, t) == Tracked(m, KeyOf(t)) /\ IsFresh(m[KeyOf(t)])

\* C29: the sweep cannot be observed: the map holds no entry the unswept map
\* lacks, every entry of the unswept map that is not older than TTL, with its
\* timestamp, and none older than TTL right after a lookup that swept; so
\* the last lookup and any lookup made next answer as on the unswept map,
\* whether they sweep or not.
C29_SweepTransparent ==
  /\ \A k \in DOMAIN recentMessages :
       k \in DOMAIN Unswept /\ recentMessages[k] = Unswept[k]
  /\ \A k \in DOMAIN Unswept :
       ~(now - Unswept[k] > MESSAGE_TRACKING_TTL) => k \in DOMAIN recentMessages
  /\ (lastCheck.made /\ lastCheck.swept) =>
       \A k \in DOMAIN recentMessages :
         ~(now - recentMessages[k] > MESSAGE_TRACKING_TTL)
  /\ \A t \in DedupInputs :
       /\ DuplicateCheck(t, TRUE).dup = Answer(Unswept, t)
       /\ DuplicateCheck(t, FALSE).dup = Answer(Unswept, t)

\* a lookup has swept an entry older than TTL away
C29_OldEntrySwept ==
  /\ lastCheck.made
  /\ lastCheck.swept
  /\ \E k \in DOMAIN Unswept :
       /\ now - Unswept[k] > MESSAGE_TRACKING_TTL
       /\ k \notin DOMAIN recentMessages

----------------------------------------------------------------------------
(* Claims about a direct send that fails *)

\* C30: when the transport send of a direct call fails, a call with
\* retry > 0 and the queue in use appends one copy of the message with
\* retry - 1 to the queue and returns the failure flagged queued; any other
\* call throws and leaves the queue as it was.
C30_FailureRequeues ==
  (lastSend.made /\ ~lastSend.entry /\ ~lastSend.ok) =>
    IF lastSend.retry > 0 /\ lastSend.useQueue
    THEN /\ lastSend.result = "requeued"
         /\ getQueue(SendSession).items =
              Append(lastSend.queueBefore.items,
                     [id |-> enqueued[SendSession], retry |-> lastSend.retry - 1])
    ELSE /\ lastSend.result = "threw"
         /\ getQueue(SendSession) = lastSend.queueBefore

\* C31: when a queue call or a loop tick finds the session's queue file
\* unreadable or unparseable, the queue is the empty default (no items, zero
\* stats, no last-processed time), the file is written anew, and the call
\* proceeds as on a fresh queue: addToQueue leaves the one message with total
\* 1 and returns length 1, clearQueue removes nothing, getQueueStatus reports
\* the empty default, and a tick finds nothing and stops the loop
C31_ReinitializedOnCorrupt ==
  \A s \in Sessions :
    (lastCall.op \in {"addToQueue", "clearQueue", "getQueueStatus", "tick"}
       /\ lastCall.reinit)
    => /\ queueFile[s] # Corrupt
       /\ lastCall.op = "addToQueue" =>
            /\ queueFile[s] = [InitialQueue EXCEPT !.items = <<lastCall.message>>,
                                                   !.stats.total = 1]
            /\ lastCall.itemsBefore = << >>
            /\ lastCall.queueLength = 1
       /\ lastCall.op = "clearQueue" =>
            /\ queueFile[s] = InitialQueue
            /\ lastCall.removedCount = 0
       /\ lastCall.op = "getQueueStatus" =>
            /\ queueFile[s] = InitialQueue
            /\ lastCall.status.itemsInQueue = 0
            /\ lastCall.status.lastProcessed = FALSE
            /\ lastCall.status.stats = [total |-> 0, success |-> 0, failed |-> 0]
       /\ lastCall.op = "tick" =>
            /\ queueFile[s] = InitialQueue
            /\ processors[s] = NoTimer
            /\ lastDispatch = NoDispatch

\* C31 witness: getQueueStatus has found the file damaged after two items had
\* been enqueued and one of them sent
C31_StatusAfterCorruption ==
  \E s \in Sessions :
    /\ lastCall.op = "getQueueStatus"
    /\ lastCall.reinit
    /\ enqueued[s] >= 2
    /\ dispatched[s] # {}

\* C32: the identifier handed to the transport ends with exactly one
\* '@s.whatsapp.net' for a user-addressed message, and for a group message
\* is the group id ending in '@g.us' with no user suffix; the identifier a
\* queue item stores yields the same transport identifier when the loop has
\* it normalised again
C32_NormalizedJid ==
  (lastSend.made /\ lastSend.result = "sending") =>
    LET jid == lastSend.jid
        rest == SubSeq(jid, 1, Len(jid) - Len(UserSuffix))
    IN /\ IF sendKind = "group-message"
          THEN /\ jid = GroupJid(CalledWith(sendKind))
               /\ EndsWith(jid, GroupSuffix)
               /\ ~EndsWith(jid, UserSuffix)
          ELSE /\ EndsWith(jid, UserSuffix)
               /\ ~EndsWith(rest, UserSuffix)
       /\ TransportJid(sendKind, jid) = jid
       /\ TransportJid(sendKind, Stored(sendKind, CalledWith(sendKind))) = jid

\* C33: at most one dispatch is in flight per session queue: no tick reads and
\* dequeues the queue while the send of an earlier tick of the session has not
\* returned and saved its result, so no two sends of the same head item, taken
\* from the same snapshot, are under way
C33_OneDispatchInFlight ==
  \A s \in Sessions :
    /\ BagCardinality(inFlight[s]) <= 1
    /\ lastDispatch.made => BagCardinality(inFlight[s]) = 1

\* the items a pending tick of s is sending
Sending(s) == {tick.message.id : tick \in BagToSet(inFlight[s])}

\* C34: an item whose enqueue has returned is never silently lost: it is in
\* the saved queue, or in flight in a dispatch, or has been dispatched, or a
\* clear has discarded it - also when the enqueue ran while a dispatch of the
\* session was suspended in its send and saved its own copy afterwards
C34_NoItemLost ==
  \A s \in Sessions :
    \A i \in 1..enqueued[s] :
      \/ i \in Ids(getQueue(s).items)
      \/ i \in Sending(s)
      \/ i \in dispatched[s]
      \/ cleared[s]

\* C35: every increment of a queue's success counter belongs to a transport
\* send that was invoked for the item and returned: an item that the duplicate
\* check admitted when it was enqueued is not counted as sent because the
\* check, made again at its dispatch by the loop, takes it for a duplicate
C35_SuccessMeansSent ==
  (lastCall.op = "send" /\ lastCall.counted = "success") =>
    lastCall.transport = "returned"

\* C36: one send-path request with the queue in use, queueOnly false and no
\* transport failure causes exactly one transport send: while the direct send
\* of the only request made so far is pending, or once it has returned, the
\* transport has been invoked once, the copy on the queue not reaching it too
C36_OneTransportSend ==
  \A s \in Sessions :
    /\ (sending # Idle /\ sending.options.useQueue /\ enqueued[s] = 1) =>
         transportSends = 1
    /\ (lastSend.made /\ lastSend.result = "sent" /\ lastSend.useQueue
          /\ enqueued[s] = 1 /\ getQueue(s).stats.failed = 0) =>
         transportSends = 1

\* C37: no send is attempted on a handle of a session after the session was
\* terminated, nor on a handle that a reconnect has replaced: when the loop of
\* a campaign starts the send for a recipient, the handle it sends on is the
\* one stored for the session
C37_SendsOnCurrentHandle ==
  [][ (bulk.at # "send" /\ bulk'.at = "send") =>
        \E s \in Sessions : /\ connections'[s] # NoConn
                              /\ connections'[s].socket = bulk'.socket ]_vars

\* handle k emits a lifecycle event in the step: it opens or closes, and not
\* as part of a disconnectSession call
Emits(k) ==
  /\ sockets[k].phase \in {"connecting", "open", "ending"}
  /\ sockets'[k].phase # sockets[k].phase
  /\ disconnecting' = disconnecting

\* C38: the recorded state of a session reflects its current handle: an open
\* or close emitted by a handle that is not the one stored for the session
\* does not change the stored state, remove the entry, alter the attempt
\* counter or schedule a reconnect
C38_StaleEventsIgnored ==
  [][ \A k \in 1..MaxSockets :
        (Emits(k) /\ connections[sockets[k].sid].socket # k) =>
          /\ connections' = connections
          /\ reconnectionAttempts' = reconnectionAttempts
          /\ reconnectTimers' = reconnectTimers ]_vars

\* the handles of session s that are being connected or are open
Live(s) ==
  {k \in 1..MaxSockets : sockets[k].sid = s /\ sockets[k].phase \in {"connecting", "open"}}

\* C39: for one session id at most one handle is being connected or open at
\* any time, so none is overwritten in the registry and left without an entry,
\* and at most one reconnect timer is pending per session
C39_OneHandlePerSession ==
  \A s \in Sessions :
    /\ Cardinality(Live(s)) <= 1
    /\ \A k \in Live(s) : connections[s].socket = k
    /\ BagCardinality(reconnectTimers[s]) <= 1

\* C40: the total that getQueueStatus reports for a session is the number of
\* addToQueue calls that have returned for it: dispatches, retries appended by
\* the loop and clears leave it alone, and no enqueue's increment is lost when
\* the enqueue falls between the read and the save of a dispatch
C40_TotalCountsEnqueues ==
  \A s \in Sessions : getQueueStatus(s).stats.total = enqueued[s]

====
